---- MODULE Spec2Model ----
(***************************************************************************)
(* Time-entry write path of the time-tracking server (Express routes over  *)
(* MemStorage) and the client duration helper.                             *)
(*                                                                         *)
(* JavaScript values are modelled as tagged records:                       *)
(*   [undef |-> TRUE]            undefined (a field absent from the JSON)  *)
(*   [str |-> <<"0","9",...>>]   a string, one element per character       *)
(*   [n |-> a, d |-> b]          the finite number a/b  (b > 0)            *)
(*   [nan |-> TRUE]              NaN                                       *)
(*   [bool |-> b]                a boolean                                 *)
(*   [null |-> TRUE]             null                                      *)
(* Numbers are exact rationals.  The inputs used below are chosen so that  *)
(* the IEEE-754 evaluation of the same expressions rounds to the same two  *)
(* decimals (every exact rounding tie is a dyadic value).                  *)
(***************************************************************************)
EXTENDS Integers, Sequences, FiniteSets, TLC

VARIABLES
  timeEntries,             \* MemStorage.timeEntries: id -> TimeEntry
  timeEntryIdCounter,      \* MemStorage.timeEntryIdCounter
  monthlyReports,          \* MemStorage.monthlyReports: id -> MonthlyReport
  monthlyReportIdCounter,  \* MemStorage.monthlyReportIdCounter
  res,                     \* the request served last and its response status
  clientDuration,          \* the last call of the client helper calculateDuration
  projects,                \* MemStorage.projects: id -> Project
  projectIdCounter,        \* MemStorage.projectIdCounter
  listing,                 \* the body of the list response served last (ids in order)
  timezoneOffset,          \* Date.prototype.getTimezoneOffset() of the server process, in minutes
  clientEntries,           \* the time entries the client components were handed
  summary,                 \* the totals MonthlySummary computed last
  groups,                  \* the result of the last call of groupEntriesByDate
  exported,                \* the rows and total of the export generated last
  users,                   \* MemStorage.users: id -> User
  requests,                \* the PATCH /api/time-entries/:id requests in flight, each at an await
  env,                     \* process.env of the server process
  storage,                 \* the export `storage` of the storage module, once it was loaded
  server,                  \* the http.Server: its error listeners and its listen calls
  portsInUse,              \* the ports other processes are bound to
  page,                    \* the route the client shows ("/" or "/time-entries")
  currentPage,             \* TimeEntries: the state currentPage
  entryCount,              \* timeEntries.length of the list the pages fetched
  isEditModalOpen,         \* App: the state isEditModalOpen
  currentEntryId,          \* App: the state currentEntryId
  clicked,                 \* the id of the entry whose edit button was clicked last (0: none)
  callStack                \* frames of onEditEntry on the stack of the running click handler

vars ==
  <<timeEntries, timeEntryIdCounter, monthlyReports, monthlyReportIdCounter, res, clientDuration,
    projects, projectIdCounter, listing, timezoneOffset, clientEntries, summary, groups, exported,
    users, requests, env, storage, server, portsInUse, page, currentPage, entryCount, isEditModalOpen,
    currentEntryId, clicked, callStack>>

storageVars == <<timeEntries, timeEntryIdCounter, monthlyReports, monthlyReportIdCounter>>

projectVars == <<projects, projectIdCounter>>

viewVars == <<clientEntries, summary, groups, exported>>

bootVars == <<env, storage, server, portsInUse>>

uiVars == <<page, currentPage, entryCount, isEditModalOpen, currentEntryId, clicked, callStack>>

(***************************************************************************)
(* JavaScript values                                                       *)
(***************************************************************************)
Undefined == [undef |-> TRUE]

Null == [null |-> TRUE]

NaN == [nan |-> TRUE]

Str(s) == [str |-> s]

Num(a) == [n |-> a, d |-> 1]

Bool(b) == [bool |-> b]

IsStr(v) == DOMAIN v = {"str"}

IsNum(v) == DOMAIN v = {"n", "d"}

IsNaN(v) == DOMAIN v = {"nan"}

IsBool(v) == DOMAIN v = {"bool"}

IsInt(v) == IsNum(v) /\ v.n % v.d = 0

\* ToBoolean: "", 0, NaN, undefined, null and false are falsy.
Truthy(v) ==
  IF IsStr(v) THEN Len(v.str) > 0
  ELSE IF IsNum(v) THEN v.n # 0
  ELSE IF IsBool(v) THEN v.bool
  ELSE FALSE

\* a || b
Or(a, b) == IF Truthy(a) THEN a ELSE b

\* Equality of two numbers as values.
NumEq(a, b) == IsNum(a) /\ IsNum(b) /\ a.n * b.d = b.n * a.d

Digits == <<"0", "1", "2", "3", "4", "5", "6", "7", "8", "9">>

IsDigit(c) == \E i \in 1..10 : Digits[i] = c

DigitVal(c) == (CHOOSE i \in 1..10 : Digits[i] = c) - 1

AllDigits(s) == \A i \in 1..Len(s) : IsDigit(s[i])

RECURSIVE DecVal(_)
\* Value of a sequence of decimal digits (0 for the empty sequence).
DecVal(s) ==
  IF s = <<>> THEN 0
  ELSE 10 * DecVal(SubSeq(s, 1, Len(s) - 1)) + DigitVal(s[Len(s)])

RECURSIVE Pow10(_)
Pow10(k) == IF k = 0 THEN 1 ELSE 10 * Pow10(k - 1)

RECURSIVE IntStr(_)
\* Decimal digits of a natural number.
IntStr(k) ==
  IF k < 10 THEN <<Digits[k + 1]>>
  ELSE IntStr(k \div 10) \o <<Digits[(k % 10) + 1]>>

\* Length of the longest prefix of s made of digits.
DigitPrefixLen(s) ==
  IF AllDigits(s) THEN Len(s)
  ELSE (CHOOSE i \in 1..Len(s) : ~IsDigit(s[i]) /\ \A j \in 1..(i - 1) : IsDigit(s[j])) - 1

RECURSIVE split(_)
\* String.prototype.split(":")
split(s) ==
  IF \A i \in 1..Len(s) : s[i] # ":" THEN <<s>>
  ELSE LET k == CHOOSE i \in 1..Len(s) : s[i] = ":" /\ \A j \in 1..(i - 1) : s[j] # ":"
       IN  <<SubSeq(s, 1, k - 1)>> \o split(SubSeq(s, k + 1, Len(s)))

\* Number(string) for strings of digits and letters: "" is 0, a run of
\* digits is its value, anything else is NaN.
Number(s) ==
  IF s = <<>> THEN Num(0)
  ELSE IF AllDigits(s) THEN Num(DecVal(s))
  ELSE NaN

\* str.split(":").map(Number)
SplitMapNumber(s) == LET parts == split(s) IN [i \in 1..Len(parts) |-> Number(parts[i])]

\* Array destructuring: a missing element is undefined.
At(arr, i) == IF i <= Len(arr) THEN arr[i] ELSE Undefined

\* Arithmetic; undefined and NaN operands give NaN.
Sub(a, b) ==
  IF IsNum(a) /\ IsNum(b) THEN [n |-> a.n * b.d - b.n * a.d, d |-> a.d * b.d] ELSE NaN

Add(a, b) ==
  IF IsNum(a) /\ IsNum(b) THEN [n |-> a.n * b.d + b.n * a.d, d |-> a.d * b.d] ELSE NaN

Mul(a, b) ==
  IF IsNum(a) /\ IsNum(b) THEN [n |-> a.n * b.n, d |-> a.d * b.d] ELSE NaN

Div(a, b) ==
  IF IsNum(a) /\ IsNum(b) /\ b.n > 0 THEN [n |-> a.n * b.d, d |-> a.d * b.n] ELSE NaN

\* Math.trunc
Trunc(x) ==
  IF ~IsNum(x) THEN NaN
  ELSE IF x.n < 0 THEN Num(0 - ((0 - x.n) \div x.d)) ELSE Num(x.n \div x.d)

\* a < 0 (false for NaN)
Negative(a) == IsNum(a) /\ a.n < 0

\* parseFloat of a string: optional sign, digits, optional fraction; the
\* rest of the string is ignored; NaN when no digit is found.
ParseFloatStr(s) ==
  LET neg  == Len(s) > 0 /\ s[1] = "-"
      body == IF neg THEN Tail(s) ELSE s
      il   == DigitPrefixLen(body)
      rest == SubSeq(body, il + 1, Len(body))
      fl   == IF Len(rest) > 0 /\ rest[1] = "." THEN DigitPrefixLen(Tail(rest)) ELSE 0
      ip   == SubSeq(body, 1, il)
      fp   == SubSeq(rest, 2, fl + 1)
      mag  == DecVal(ip) * Pow10(fl) + DecVal(fp)
  IN  IF il = 0 /\ fl = 0 THEN NaN
      ELSE [n |-> IF neg THEN 0 - mag ELSE mag, d |-> Pow10(fl)]

\* parseFloat(v): a number converts to its own value, undefined to NaN.
parseFloat(v) ==
  IF IsStr(v) THEN ParseFloatStr(v.str)
  ELSE IF IsNum(v) THEN v
  ELSE NaN

\* Number.prototype.toString for the integers that can be stored.
NumToString(v) ==
  IF v.n < 0 THEN Str(<<"-">> \o IntStr((0 - v.n) \div v.d)) ELSE Str(IntStr(v.n \div v.d))

\* v.toString() for a stored string or number.
toString(v) == IF IsStr(v) THEN v ELSE NumToString(v)

\* Number.prototype.toFixed(2): the sign is taken off first, the magnitude
\* is rounded to the nearest hundredth (the larger one on a tie).
toFixed2(x) ==
  IF ~IsNum(x) THEN Str(<<"N", "a", "N">>)
  ELSE LET neg == x.n < 0
           a   == IF neg THEN 0 - x.n ELSE x.n
           q   == (200 * a + x.d) \div (2 * x.d)
           f   == q % 100
       IN  Str((IF neg THEN <<"-">> ELSE <<>>) \o IntStr(q \div 100)
               \o <<".", Digits[(f \div 10) + 1], Digits[(f % 10) + 1]>>)

(***************************************************************************)
(* IEEE-754 doubles, for the sums whose rounding depends on the order of   *)
(* the operands.  A finite double that is not negative is                  *)
(*   [e |-> k, m |-> <<1, b2, ..., b53>>]   2^k * 1.b2...b53 (binary)      *)
(* or zero, whose 53 digits are all 0.  Every result is rounded to the     *)
(* nearest double, to the even one on a tie.                               *)
(***************************************************************************)
\* k zeros (none for k <= 0)
Zeros(k) == [i \in 1..(IF k > 0 THEN k ELSE 0) |-> 0]

RECURSIVE Pow2(_)
Pow2(k) == IF k = 0 THEN 1 ELSE 2 * Pow2(k - 1)

F64Zero == [e |-> 0, m |-> Zeros(53)]

IsF64Zero(x) == x.m[1] = 0

\* The n binary digits of v < 2^n, the first one the highest.
Bits(v, n) == [i \in 1..n |-> (v \div Pow2(n - i)) % 2]

RECURSIVE BitsValue(_)
\* The number a short sequence of binary digits denotes.
BitsValue(bits) ==
  IF Len(bits) = 0 THEN 0
  ELSE 2 * BitsValue(SubSeq(bits, 1, Len(bits) - 1)) + bits[Len(bits)]

RECURSIVE BinaryDigits(_, _, _)
\* The first k binary digits of r/D after the point (r < D < 2^22) and the
\* remainder they leave, eight digits at a time.
BinaryDigits(r, D, k) ==
  IF k <= 8 THEN [bits |-> Bits((r * Pow2(k)) \div D, k), r |-> (r * Pow2(k)) % D]
  ELSE LET rest == BinaryDigits((r * 256) % D, D, k - 8)
       IN  [bits |-> Bits((r * 256) \div D, 8) \o rest.bits, r |-> rest.r]

\* bits + 1 and the carry out of the first digit.
Increment(bits) ==
  IF \A i \in 1..Len(bits) : bits[i] = 1 THEN [bits |-> Zeros(Len(bits)), carry |-> 1]
  ELSE LET p == CHOOSE i \in 1..Len(bits) :
                  bits[i] = 0 /\ \A j \in (i + 1)..Len(bits) : bits[j] = 1
       IN  [bits |-> [i \in 1..Len(bits) |-> IF i < p THEN bits[i] ELSE IF i = p THEN 1 ELSE 0],
            carry |-> 0]

RECURSIVE AddBits(_, _, _)
\* x + y + c for two digit sequences of one length, and the carry out,
\* twelve digits at a time from the low end.
AddBits(x, y, c) ==
  LET n == Len(x)
  IN  IF n <= 12
      THEN LET t == BitsValue(x) + BitsValue(y) + c
           IN  [bits |-> Bits(t % Pow2(n), n), carry |-> t \div Pow2(n)]
      ELSE LET t    == BitsValue(SubSeq(x, n - 11, n)) + BitsValue(SubSeq(y, n - 11, n)) + c
               high == AddBits(SubSeq(x, 1, n - 12), SubSeq(y, 1, n - 12), t \div 4096)
           IN  [bits |-> high.bits \o Bits(t % 4096, 12), carry |-> high.carry]

\* The double nearest to 2^e * 1.d2d3... where digits = <<1, d2, d3, ...>>
\* and sticky tells that digits beyond those given are not all 0.
F64Round(e, digits, sticky) ==
  LET d    == digits \o Zeros(54 - Len(digits))
      keep == SubSeq(d, 1, 53)
      more == sticky \/ \E i \in 55..Len(d) : d[i] = 1
      up   == d[54] = 1 /\ (more \/ keep[53] = 1)
      inc  == Increment(keep)
  IN  IF ~up THEN [e |-> e, m |-> keep]
      ELSE IF inc.carry = 1 THEN [e |-> e + 1, m |-> <<1>> \o Zeros(52)]
      ELSE [e |-> e, m |-> inc.bits]

\* The double a decimal literal of value x.n / x.d >= 0 denotes
\* (parseFloat and Number are correctly rounded).
F64OfRational(x) ==
  IF x.n = 0 THEN F64Zero
  ELSE LET exponent ==
             IF x.n >= x.d
             THEN CHOOSE k \in 0..30 : x.d * Pow2(k) <= x.n /\ x.n < x.d * Pow2(k + 1)
             ELSE 0 - (CHOOSE k \in 1..30 : x.d <= x.n * Pow2(k) /\ x.n * Pow2(k) < 2 * x.d)
           num  == IF exponent >= 0 THEN x.n ELSE x.n * Pow2(0 - exponent)
           den  == IF exponent >= 0 THEN x.d * Pow2(exponent) ELSE x.d
           frac == BinaryDigits(num - den, den, 53)
       IN  F64Round(exponent, <<1>> \o frac.bits, frac.r # 0)

\* a + b on doubles
F64Add(a, b) ==
  IF IsF64Zero(a) THEN b
  ELSE IF IsF64Zero(b) THEN a
  ELSE LET hi    == IF a.e >= b.e THEN a ELSE b
           lo    == IF a.e >= b.e THEN b ELSE a
           shift == hi.e - lo.e
       IN  IF shift > 54 THEN hi
           ELSE LET sum == AddBits(hi.m \o Zeros(shift), Zeros(shift) \o lo.m, 0)
                IN  IF sum.carry = 1 THEN F64Round(hi.e + 1, <<1>> \o sum.bits, FALSE)
                    ELSE F64Round(hi.e, sum.bits, FALSE)

(***************************************************************************)
(* Objects: a JSON object is a function from its keys to values.           *)
(***************************************************************************)
\* obj.key
Get(obj, k) == IF k \in DOMAIN obj THEN obj[k] ELSE Undefined

\* { ...a, ...b }
Spread(a, b) == [k \in (DOMAIN a) \cup (DOMAIN b) |-> IF k \in DOMAIN b THEN b[k] ELSE a[k]]

\* The JSON object holding the fields of r that are not undefined.
Json(r) == [k \in {f \in DOMAIN r : r[f] # Undefined} |-> r[k]]

(***************************************************************************)
(* shared/schema.ts: insert schemas (drizzle-zod).  decimal, date and text *)
(* columns are strings, integer columns are integers; unknown keys are     *)
(* stripped; id is omitted.                                                *)
(***************************************************************************)
TimeEntryKeys ==
  {"userId", "projectId", "date", "startTime", "endTime", "duration", "hourlyRate", "earnings", "notes"}

insertTimeEntrySchemaOk(obj) ==
  /\ \A k \in {"userId", "projectId"} : IsInt(Get(obj, k))
  /\ \A k \in {"date", "startTime", "endTime", "duration", "hourlyRate", "earnings"} : IsStr(Get(obj, k))
  /\ Get(obj, "notes") \in {Undefined, Null} \/ IsStr(Get(obj, "notes"))

insertTimeEntrySchemaParse(obj) == [k \in (DOMAIN obj) \cap TimeEntryKeys |-> obj[k]]

MonthlyReportKeys ==
  {"userId", "year", "month", "hoursWorked", "daysWorked", "dailyAverage", "totalEarnings", "isCompleted"}

insertMonthlyReportSchemaOk(obj) ==
  /\ \A k \in {"userId", "year", "month", "daysWorked"} : IsInt(Get(obj, k))
  /\ \A k \in {"hoursWorked", "dailyAverage", "totalEarnings"} : IsStr(Get(obj, k))
  /\ Get(obj, "isCompleted") = Undefined \/ IsBool(Get(obj, "isCompleted"))

insertMonthlyReportSchemaParse(obj) == [k \in (DOMAIN obj) \cap MonthlyReportKeys |-> obj[k]]

ProjectKeys == {"name", "color", "userId"}

insertProjectSchemaOk(obj) ==
  /\ IsStr(Get(obj, "name"))
  /\ Get(obj, "color") = Undefined \/ IsStr(Get(obj, "color"))
  /\ IsInt(Get(obj, "userId"))

insertProjectSchemaParse(obj) == [k \in (DOMAIN obj) \cap ProjectKeys |-> obj[k]]

(***************************************************************************)
(* MemStorage                                                              *)
(***************************************************************************)
getTimeEntry(id) == IF id \in DOMAIN timeEntries THEN timeEntries[id] ELSE Undefined

\* The record createTimeEntry stores under the next id.
createTimeEntry(timeEntry) ==
  Spread(timeEntry, [id |-> Num(timeEntryIdCounter), notes |-> Or(Get(timeEntry, "notes"), Null)])

\* The record updateTimeEntry stores under id (the entry exists).
updateTimeEntry(id, timeEntryData) == Spread(timeEntries[id], timeEntryData)

\* The user the constructor of MemStorage creates (createUser fills in id,
\* hourlyRate, monthlyGoalHours and initials).
DefaultUsers ==
  <<[id |-> Num(1), username |-> Str(<<"d", "e", "m", "o">>), password |-> Str(<<"p", "a", "s", "s", "w", "o", "r", "d">>), name |-> Str(<<"A", "l", "e", "x", " ", "D", "e", "n", "o", "v", "a">>), email |-> Str(<<"a", "l", "e", "x", "@", "e", "x", "a", "m", "p", "l", "e", ".", "c", "o", "m">>),
     hourlyRate |-> Str(<<"2", "5">>), monthlyGoalHours |-> Str(<<"1", "6", "0">>), initials |-> Str(<<"A", "D">>)]>>

getUser(id) == IF id \in DOMAIN users THEN users[id] ELSE Undefined

\* The record updateUser stores under id (the user exists).
updateUser(id, userData) == Spread(users[id], userData)

(***************************************************************************)
(* Dates.  A Date is its time value in minutes since the epoch (every Date *)
(* built here is a whole minute), or NaN for an Invalid Date.  The zone of *)
(* the process has the fixed offset timezoneOffset (no clock change).      *)
(***************************************************************************)
\* Days from 1970-01-01 to the civil date y-m-d.
DaysFromCivil(y, m, d) ==
  LET yy  == IF m <= 2 THEN y - 1 ELSE y
      era == yy \div 400
      yoe == yy - era * 400
      mp  == IF m > 2 THEN m - 3 ELSE m + 9
      doy == (153 * mp + 2) \div 5 + d - 1
      doe == yoe * 365 + yoe \div 4 - yoe \div 100 + doy
  IN  era * 146097 + doe - 719468

DaysInMonth(y, m) ==
  IF m = 2 THEN (IF (y % 4 = 0 /\ y % 100 # 0) \/ y % 400 = 0 THEN 29 ELSE 28)
  ELSE IF m \in {4, 6, 9, 11} THEN 30 ELSE 31

\* new Date(value) of a stored date: the date-only form YYYY-MM-DD is UTC
\* midnight of that day; anything else used here is an Invalid Date.
NewDateOfString(v) ==
  IF /\ IsStr(v)
     /\ Len(v.str) = 10
     /\ v.str[5] = "-" /\ v.str[8] = "-"
     /\ \A i \in {1, 2, 3, 4, 6, 7, 9, 10} : IsDigit(v.str[i])
  THEN LET y == DecVal(SubSeq(v.str, 1, 4))
           m == DecVal(SubSeq(v.str, 6, 7))
           d == DecVal(SubSeq(v.str, 9, 10))
       IN  IF m \in 1..12 /\ d \in 1..DaysInMonth(y, m)
           THEN Num(DaysFromCivil(y, m, d) * 1440) ELSE NaN
  ELSE NaN

\* new Date(year, monthIndex, day): local midnight; a monthIndex of 12 is
\* January of the next year and day 0 is the day before the first.
NewDateLocal(year, monthIndex, day) ==
  LET y == year + monthIndex \div 12
      m == (monthIndex % 12) + 1
  IN  Num((DaysFromCivil(y, m, 1) + day - 1) * 1440 + timezoneOffset)

\* a >= b and a <= b on Dates (false when either is invalid)
DateGeq(a, b) == IsNum(a) /\ IsNum(b) /\ a.n * b.d >= b.n * a.d

DateLeq(a, b) == DateGeq(b, a)

RECURSIVE SortByDateDesc(_)
\* Array.from(map.values()) of the entries ids, then
\* .sort((a, b) => new Date(b.date).getTime() - new Date(a.date).getTime()):
\* a stable sort of the insertion order (ascending ids), newest date first;
\* a comparison with an Invalid Date yields NaN, which sort reads as equal.
SortByDateDesc(ids) ==
  IF ids = {} THEN <<>>
  ELSE LET Time(id) == NewDateOfString(Get(timeEntries[id], "date"))
           Before(a, b) == \/ IsNum(Time(a)) /\ IsNum(Time(b)) /\ Time(a).n > Time(b).n
                           \/ (~IsNum(Time(a)) \/ ~IsNum(Time(b)) \/ Time(a).n = Time(b).n) /\ a < b
           first == CHOOSE id \in ids : \A other \in ids \ {id} : Before(id, other)
       IN  <<first>> \o SortByDateDesc(ids \ {first})

\* MemStorage.getTimeEntries: the ids of the entries returned, in order.
getTimeEntries(userId) ==
  SortByDateDesc({id \in DOMAIN timeEntries : Get(timeEntries[id], "userId") = userId})

\* DbStorage.getTimeEntries over a table with the same rows: the orders in
\* which ORDER BY date may return the ids of the user's entries (ascending
\* dates; the order of rows of one date is not determined).
DbStorageGetTimeEntries(userId) ==
  LET ids == {id \in DOMAIN timeEntries : Get(timeEntries[id], "userId") = userId}
      Time(id) == NewDateOfString(Get(timeEntries[id], "date")).n
  IN  {order \in [1..Cardinality(ids) -> ids] :
         /\ \A i \in DOMAIN order : \A j \in DOMAIN order : order[i] = order[j] => i = j
         /\ \A i \in DOMAIN order : \A j \in DOMAIN order : i < j => Time(order[i]) <= Time(order[j])}

\* MemStorage.getTimeEntriesByMonth: the ids of the entries returned, in order.
getTimeEntriesByMonth(userId, year, month) ==
  LET startDate == NewDateLocal(year, month - 1, 1)
      endDate   == NewDateLocal(year, month, 0)
  IN  SortByDateDesc({id \in DOMAIN timeEntries :
                        LET entryDate == NewDateOfString(Get(timeEntries[id], "date"))
                        IN  /\ Get(timeEntries[id], "userId") = userId
                            /\ DateGeq(entryDate, startDate)
                            /\ DateLeq(entryDate, endDate)})

\* The record createMonthlyReport stores under the next id.
createMonthlyReport(monthlyReport) ==
  Spread(monthlyReport,
         [id |-> Num(monthlyReportIdCounter),
          isCompleted |-> IF Get(monthlyReport, "isCompleted") = Undefined
                          THEN Bool(FALSE) ELSE monthlyReport["isCompleted"]])

\* Array.from(monthlyReports.values()).find(...): the id of the first stored
\* report (ids are inserted in ascending order) of that user, year and
\* month, or 0 when find returns undefined.
getMonthlyReport(userId, year, month) ==
  LET found == {id \in DOMAIN monthlyReports :
                  /\ Get(monthlyReports[id], "userId") = userId
                  /\ Get(monthlyReports[id], "year") = year
                  /\ Get(monthlyReports[id], "month") = month}
  IN  IF found = {} THEN 0 ELSE CHOOSE id \in found : \A other \in found : id <= other

\* A plausible slip: the default of createMonthlyReport applied on update.
updateMonthlyReport_ResetCompleted(id, reportData) ==
  Spread(Spread(monthlyReports[id], reportData),
         [isCompleted |-> IF Get(reportData, "isCompleted") = Undefined
                          THEN Bool(FALSE) ELSE reportData["isCompleted"]])

\* The record updateMonthlyReport stores under id (the report exists).
updateMonthlyReport(id, reportData) == Spread(monthlyReports[id], reportData)

getProject(id) == IF id \in DOMAIN projects THEN projects[id] ELSE Undefined

\* A slip: the id is the number of stored projects plus one.
createProject_SizeId(project) ==
  Spread(project, [id |-> Num(Cardinality(DOMAIN projects) + 1),
                   color |-> Or(Get(project, "color"), Str(<<"#", "3", "b", "8", "2", "f", "6">>))])

\* The record createProject stores under the next id.
createProject(project) ==
  Spread(project, [id |-> Num(projectIdCounter),
                   color |-> Or(Get(project, "color"), Str(<<"#", "3", "b", "8", "2", "f", "6">>))])

\* The record updateProject stores under id (the project exists).
updateProject(id, projectData) == Spread(projects[id], projectData)

\* Map.set
MapSet(map, id, v) == [k \in (DOMAIN map) \cup {id} |-> IF k = id THEN v ELSE map[k]]

\* A slip: Map.clear in the place of Map.delete.
MapDelete_Clear(map, id) == IF id \in DOMAIN map THEN <<>> ELSE map

\* Map.delete
MapDelete(map, id) == [k \in (DOMAIN map) \ {id} |-> map[k]]

(***************************************************************************)
(* Duration and earnings as the routes compute them                        *)
(***************************************************************************)
\* postDuration without the borrow of an hour.
postDuration_NoBorrow(startTime, endTime) ==
  LET startHours   == At(SplitMapNumber(startTime.str), 1)
      startMinutes == At(SplitMapNumber(startTime.str), 2)
      endHours     == At(SplitMapNumber(endTime.str), 1)
      endMinutes   == At(SplitMapNumber(endTime.str), 2)
      hours0       == Sub(endHours, startHours)
      minutes0     == Sub(endMinutes, startMinutes)
      durationMinutes == IF Negative(minutes0) THEN Add(minutes0, Num(60)) ELSE minutes0
  IN  Add(hours0, Div(durationMinutes, Num(60)))

\* POST /api/time-entries: duration (a number) from two time strings.
postDuration(startTime, endTime) ==
  LET startHours   == At(SplitMapNumber(startTime.str), 1)
      startMinutes == At(SplitMapNumber(startTime.str), 2)
      endHours     == At(SplitMapNumber(endTime.str), 1)
      endMinutes   == At(SplitMapNumber(endTime.str), 2)
      hours0       == Sub(endHours, startHours)
      minutes0     == Sub(endMinutes, startMinutes)
      durationHours   == IF Negative(minutes0) THEN Sub(hours0, Num(1)) ELSE hours0
      durationMinutes == IF Negative(minutes0) THEN Add(minutes0, Num(60)) ELSE minutes0
  IN  Add(durationHours, Div(durationMinutes, Num(60)))

\* PATCH /api/time-entries/:id: the same computation, written out again.
patchDuration(startTime, endTime) ==
  LET startHours   == At(SplitMapNumber(startTime.str), 1)
      startMinutes == At(SplitMapNumber(startTime.str), 2)
      endHours     == At(SplitMapNumber(endTime.str), 1)
      endMinutes   == At(SplitMapNumber(endTime.str), 2)
      hours0       == Sub(endHours, startHours)
      minutes0     == Sub(endMinutes, startMinutes)
      durationHours   == IF Negative(minutes0) THEN Sub(hours0, Num(1)) ELSE hours0
      durationMinutes == IF Negative(minutes0) THEN Add(minutes0, Num(60)) ELSE minutes0
  IN  Add(durationHours, Div(durationMinutes, Num(60)))

\* Earnings taken from the duration as stored, with two decimals.
postEarnings_FromRounded(duration, hourlyRate) == Mul(parseFloat(toFixed2(duration)), hourlyRate)

\* earnings = duration * hourlyRate
postEarnings(duration, hourlyRate) == Mul(duration, hourlyRate)

\* Earnings of whole hours only.
patchEarnings_WholeHours(duration, hourlyRate) == Mul(Trunc(duration), hourlyRate)

patchEarnings(duration, hourlyRate) == Mul(duration, hourlyRate)

(***************************************************************************)
(* Routes.  userId is the constant 1 of the routes.  Every route is one    *)
(* atomic step.                                                            *)
(***************************************************************************)
\* The request served last (route, id parameter, keys of its JSON body) and
\* the status of its response.
Response(route, id, keys, status) == [route |-> route, id |-> id, keys |-> keys, status |-> status]

\* POST /api/time-entries
PostTimeEntry(body) ==
  LET startTime  == Get(body, "startTime")
      endTime    == Get(body, "endTime")
      hourlyRate == parseFloat(Get(body, "hourlyRate"))
      duration   == postDuration(startTime, endTime)
      earnings   == postEarnings(duration, hourlyRate)
      data       == Spread(body, [userId |-> Num(1),
                                  duration |-> toFixed2(duration),
                                  earnings |-> toFixed2(earnings)])
      created    == createTimeEntry(insertTimeEntrySchemaParse(data))
  IN  /\ IF IsStr(startTime) /\ IsStr(endTime) /\ insertTimeEntrySchemaOk(data)
         THEN /\ timeEntries' = MapSet(timeEntries, timeEntryIdCounter, created)
              /\ timeEntryIdCounter' = timeEntryIdCounter + 1
              /\ res' = Response("POST /api/time-entries", timeEntryIdCounter, DOMAIN body, 201)
         ELSE \* split of a non-string throws, or the schema rejects the data
              /\ UNCHANGED <<timeEntries, timeEntryIdCounter>>
              /\ res' = Response("POST /api/time-entries", 0, DOMAIN body, 400)
      /\ UNCHANGED <<monthlyReports, monthlyReportIdCounter, clientDuration,
                  projectVars, listing, timezoneOffset, viewVars, users, requests, bootVars, uiVars>>

\* PATCH /api/time-entries/:id
PatchTimeEntry(entryId, body) ==
  LET recalc     == \/ Truthy(Get(body, "startTime"))
                    \/ Truthy(Get(body, "endTime"))
                    \/ Truthy(Get(body, "hourlyRate"))
      entry      == getTimeEntry(entryId)
      startTime  == Or(Get(body, "startTime"), Get(entry, "startTime"))
      endTime    == Or(Get(body, "endTime"), Get(entry, "endTime"))
      rateArg    == Or(Get(body, "hourlyRate"), toString(Get(entry, "hourlyRate")))
      hourlyRate == parseFloat(rateArg)
      duration   == patchDuration(startTime, endTime)
      earnings   == patchEarnings(duration, hourlyRate)
      throws     == \/ ~Truthy(Get(body, "hourlyRate"))
                       /\ Get(entry, "hourlyRate") \in {Undefined, Null}
                    \/ ~IsStr(startTime)
                    \/ ~IsStr(endTime)
      data       == IF recalc
                    THEN Spread(body, [duration |-> toFixed2(duration),
                                       earnings |-> toFixed2(earnings)])
                    ELSE body
  IN  /\ IF entryId \notin DOMAIN timeEntries
         THEN /\ UNCHANGED timeEntries
              /\ res' = Response("PATCH /api/time-entries/:id", entryId, DOMAIN body, 404)
         ELSE IF recalc /\ throws
         THEN /\ UNCHANGED timeEntries
              /\ res' = Response("PATCH /api/time-entries/:id", entryId, DOMAIN body, 400)
         ELSE /\ timeEntries' = MapSet(timeEntries, entryId, updateTimeEntry(entryId, data))
              /\ res' = Response("PATCH /api/time-entries/:id", entryId, DOMAIN body, 200)
      /\ UNCHANGED <<timeEntryIdCounter, monthlyReports, monthlyReportIdCounter, clientDuration,
                  projectVars, listing, timezoneOffset, viewVars, users, requests, bootVars, uiVars>>

\* PATCH /api/time-entries/:id step by step, for requests that are in flight
\* together.  A request is suspended at each await with the value the
\* awaited promise was resolved with (awaited): the storage call has read
\* the map when it was made, the handler goes on in a later turn.
\*
\* The handler up to its first await: storage.getTimeEntry if the body has a
\* time field, storage.updateTimeEntry (up to its own await) otherwise.
PatchReceive(entryId, body) ==
  LET recalc == \/ Truthy(Get(body, "startTime"))
                \/ Truthy(Get(body, "endTime"))
                \/ Truthy(Get(body, "hourlyRate"))
  IN  /\ requests' = Append(requests,
                            [pc |-> IF recalc THEN "getTimeEntry" ELSE "updateTimeEntry.getTimeEntry",
                             entryId |-> entryId, body |-> body, awaited |-> getTimeEntry(entryId),
                             status |-> 0])
      /\ UNCHANGED <<storageVars, res, clientDuration, projectVars, listing, timezoneOffset, viewVars,
                      users, bootVars, uiVars>>

\* From the await of storage.getTimeEntry to the await in updateTimeEntry.
PatchRecalc(r) ==
  LET body       == requests[r].body
      entry      == requests[r].awaited
      startTime  == Or(Get(body, "startTime"), Get(entry, "startTime"))
      endTime    == Or(Get(body, "endTime"), Get(entry, "endTime"))
      rateArg    == Or(Get(body, "hourlyRate"), toString(Get(entry, "hourlyRate")))
      hourlyRate == parseFloat(rateArg)
      duration   == patchDuration(startTime, endTime)
      earnings   == patchEarnings(duration, hourlyRate)
      throws     == \/ ~Truthy(Get(body, "hourlyRate"))
                       /\ Get(entry, "hourlyRate") \in {Undefined, Null}
                    \/ ~IsStr(startTime)
                    \/ ~IsStr(endTime)
  IN  /\ requests[r].pc = "getTimeEntry"
      /\ requests' =
           [requests EXCEPT ![r] =
              IF entry = Undefined THEN [@ EXCEPT !.pc = "done", !.status = 404]
              ELSE IF throws THEN [@ EXCEPT !.pc = "done", !.status = 400]
              ELSE [@ EXCEPT !.pc = "updateTimeEntry.getTimeEntry",
                             !.body = Spread(body, [duration |-> toFixed2(duration),
                                                    earnings |-> toFixed2(earnings)]),
                             !.awaited = getTimeEntry(requests[r].entryId)]]
      /\ res' = IF entry = Undefined
                 THEN Response("PATCH /api/time-entries/:id", requests[r].entryId, DOMAIN body, 404)
                 ELSE IF throws
                 THEN Response("PATCH /api/time-entries/:id", requests[r].entryId, DOMAIN body, 400)
                 ELSE res
      /\ UNCHANGED <<storageVars, clientDuration, projectVars, listing, timezoneOffset, viewVars,
                      users, bootVars, uiVars>>

\* MemStorage.updateTimeEntry after its await: the entry it read, with the
\* data spread over it, is stored.
PatchStore(r) ==
  LET timeEntry == requests[r].awaited
      updated   == Spread(timeEntry, requests[r].body)
  IN  /\ requests[r].pc = "updateTimeEntry.getTimeEntry"
      /\ IF timeEntry = Undefined
         THEN /\ UNCHANGED timeEntries
              /\ requests' = [requests EXCEPT ![r].pc = "updateTimeEntry"]
         ELSE /\ timeEntries' = MapSet(timeEntries, requests[r].entryId, updated)
              /\ requests' = [requests EXCEPT ![r].pc = "updateTimeEntry", ![r].awaited = updated]
      /\ UNCHANGED <<timeEntryIdCounter, monthlyReports, monthlyReportIdCounter, res, clientDuration,
                      projectVars, listing, timezoneOffset, viewVars, users, bootVars, uiVars>>

\* The handler after the await of storage.updateTimeEntry: the response.
PatchRespond(r) ==
  LET status == IF requests[r].awaited = Undefined THEN 404 ELSE 200
  IN  /\ requests[r].pc = "updateTimeEntry"
      /\ requests' = [requests EXCEPT ![r].pc = "done", ![r].status = status]
      /\ res' = Response("PATCH /api/time-entries/:id", requests[r].entryId,
                         DOMAIN requests[r].body, status)
      /\ UNCHANGED <<storageVars, clientDuration, projectVars, listing, timezoneOffset, viewVars,
                      users, bootVars, uiVars>>

\* A slip: deleting an entry reopens the stored reports.
DeleteTimeEntry_ReopensReports(entryId) ==
  /\ timeEntries' = MapDelete(timeEntries, entryId)
  /\ monthlyReports' = [id \in DOMAIN monthlyReports |->
                          Spread(monthlyReports[id], [isCompleted |-> Bool(FALSE)])]
  /\ res' = Response("DELETE /api/time-entries/:id", entryId, {},
                     IF entryId \in DOMAIN timeEntries THEN 204 ELSE 404)
  /\ UNCHANGED <<timeEntryIdCounter, monthlyReportIdCounter, clientDuration,
                  projectVars, listing, timezoneOffset, viewVars, users, requests, bootVars, uiVars>>

\* DELETE /api/time-entries/:id
DeleteTimeEntry(entryId) ==
  /\ timeEntries' = MapDelete(timeEntries, entryId)
  /\ res' = Response("DELETE /api/time-entries/:id", entryId, {},
                     IF entryId \in DOMAIN timeEntries THEN 204 ELSE 404)
  /\ UNCHANGED <<timeEntryIdCounter, monthlyReports, monthlyReportIdCounter, clientDuration,
                  projectVars, listing, timezoneOffset, viewVars, users, requests, bootVars, uiVars>>

\* POST /api/monthly-reports
PostMonthlyReport(body) ==
  LET data == Spread(body, [userId |-> Num(1)])
  IN  /\ IF insertMonthlyReportSchemaOk(data)
         THEN /\ monthlyReports' = MapSet(monthlyReports, monthlyReportIdCounter,
                                          createMonthlyReport(insertMonthlyReportSchemaParse(data)))
              /\ monthlyReportIdCounter' = monthlyReportIdCounter + 1
              /\ res' = Response("POST /api/monthly-reports", monthlyReportIdCounter, DOMAIN body, 201)
         ELSE /\ UNCHANGED <<monthlyReports, monthlyReportIdCounter>>
              /\ res' = Response("POST /api/monthly-reports", 0, DOMAIN body, 400)
      /\ UNCHANGED <<timeEntries, timeEntryIdCounter, clientDuration,
                  projectVars, listing, timezoneOffset, viewVars, users, requests, bootVars, uiVars>>

\* PATCH /api/monthly-reports/:id
PatchMonthlyReport(reportId, body) ==
  /\ IF reportId \in DOMAIN monthlyReports
     THEN /\ monthlyReports' = MapSet(monthlyReports, reportId, updateMonthlyReport(reportId, body))
          /\ res' = Response("PATCH /api/monthly-reports/:id", reportId, DOMAIN body, 200)
     ELSE /\ UNCHANGED monthlyReports
          /\ res' = Response("PATCH /api/monthly-reports/:id", reportId, DOMAIN body, 404)
  /\ UNCHANGED <<timeEntries, timeEntryIdCounter, monthlyReportIdCounter, clientDuration,
                  projectVars, listing, timezoneOffset, viewVars, users, requests, bootVars, uiVars>>

\* GET /api/projects/:id
GetProject(projectId) ==
  /\ res' = Response("GET /api/projects/:id", projectId, {},
                     IF getProject(projectId) = Undefined THEN 404 ELSE 200)
  /\ UNCHANGED <<storageVars, clientDuration, projectVars, listing, timezoneOffset, viewVars, users, requests, bootVars, uiVars>>

\* POST /api/projects
PostProject(body) ==
  LET data == Spread(body, [userId |-> Num(1)])
  IN  /\ IF insertProjectSchemaOk(data)
         THEN /\ projects' = MapSet(projects, projectIdCounter,
                                    createProject(insertProjectSchemaParse(data)))
              /\ projectIdCounter' = projectIdCounter + 1
              /\ res' = Response("POST /api/projects", projectIdCounter, DOMAIN body, 201)
         ELSE /\ UNCHANGED <<projects, projectIdCounter>>
              /\ res' = Response("POST /api/projects", 0, DOMAIN body, 400)
      /\ UNCHANGED <<storageVars, clientDuration, listing, timezoneOffset, viewVars, users, requests, bootVars, uiVars>>

\* PATCH /api/projects/:id
PatchProject(projectId, body) ==
  /\ IF projectId \in DOMAIN projects
     THEN /\ projects' = MapSet(projects, projectId, updateProject(projectId, body))
          /\ res' = Response("PATCH /api/projects/:id", projectId, DOMAIN body, 200)
     ELSE /\ UNCHANGED projects
          /\ res' = Response("PATCH /api/projects/:id", projectId, DOMAIN body, 404)
  /\ UNCHANGED <<storageVars, clientDuration, projectIdCounter, listing, timezoneOffset, viewVars, users, requests, bootVars, uiVars>>

\* A slip: the outcome of Map.delete is not looked at.
DeleteProject_Always204(projectId) ==
  /\ projects' = MapDelete(projects, projectId)
  /\ res' = Response("DELETE /api/projects/:id", projectId, {}, 204)
  /\ UNCHANGED <<storageVars, clientDuration, projectIdCounter, listing, timezoneOffset, viewVars, users, requests, bootVars, uiVars>>

\* DELETE /api/projects/:id
DeleteProject(projectId) ==
  /\ projects' = MapDelete(projects, projectId)
  /\ res' = Response("DELETE /api/projects/:id", projectId, {},
                     IF projectId \in DOMAIN projects THEN 204 ELSE 404)
  /\ UNCHANGED <<storageVars, clientDuration, projectIdCounter, listing, timezoneOffset, viewVars, users, requests, bootVars, uiVars>>

\* GET /api/time-entries
GetTimeEntries ==
  /\ listing' = getTimeEntries(Num(1))
  /\ res' = Response("GET /api/time-entries", 0, {}, 200)
  /\ UNCHANGED <<storageVars, clientDuration, projectVars, timezoneOffset, viewVars, users, requests, bootVars, uiVars>>

\* GET /api/time-entries/:year/:month.  The id of the response is the pair
\* <<year, month>> of the request.
GetTimeEntriesByMonth(year, month) ==
  /\ listing' = getTimeEntriesByMonth(Num(1), year, month)
  /\ res' = Response("GET /api/time-entries/:year/:month", <<year, month>>, {}, 200)
  /\ UNCHANGED <<storageVars, clientDuration, projectVars, timezoneOffset, viewVars, users, requests, bootVars, uiVars>>

\* GET /api/time-entries/:id
GetTimeEntry(entryId) ==
  /\ res' = Response("GET /api/time-entries/:id", entryId, {},
                     IF getTimeEntry(entryId) = Undefined THEN 404 ELSE 200)
  /\ UNCHANGED <<storageVars, clientDuration, projectVars, listing, timezoneOffset, viewVars, users, requests, bootVars, uiVars>>

\* GET /api/monthly-reports/:year/:month.  The id of the response is the
\* key <<year, month>> of the request.
GetMonthlyReport(year, month) ==
  /\ res' = Response("GET /api/monthly-reports/:year/:month", <<year, month>>, {},
                     IF getMonthlyReport(Num(1), Num(year), Num(month)) = 0 THEN 404 ELSE 200)
  /\ UNCHANGED <<storageVars, clientDuration, projectVars, listing, timezoneOffset, viewVars, users, requests, bootVars, uiVars>>

\* A slip: the user is returned as stored.
omitPassword_Keep(user) == user

\* const { password, ...userData } = user
omitPassword(user) == [k \in (DOMAIN user) \ {"password"} |-> user[k]]

\* GET /api/user
GetUser ==
  /\ res' = IF getUser(1) = Undefined
             THEN Spread(Response("GET /api/user", 1, {}, 404), [body |-> [message |-> "User not found"]])
             ELSE Spread(Response("GET /api/user", 1, {}, 200), [body |-> omitPassword(getUser(1))])
  /\ UNCHANGED <<storageVars, clientDuration, projectVars, listing, timezoneOffset, viewVars,
                  users, requests, bootVars, uiVars>>

\* PATCH /api/user
PatchUser(body) ==
  /\ IF getUser(1) = Undefined
     THEN /\ UNCHANGED users
          /\ res' = Spread(Response("PATCH /api/user", 1, DOMAIN body, 404),
                           [body |-> [message |-> "User not found"]])
     ELSE /\ users' = MapSet(users, 1, updateUser(1, body))
          /\ res' = Spread(Response("PATCH /api/user", 1, DOMAIN body, 200),
                           [body |-> omitPassword(updateUser(1, body))])
  /\ UNCHANGED <<storageVars, clientDuration, projectVars, listing, timezoneOffset, viewVars,
                  requests, bootVars, uiVars>>

(***************************************************************************)
(* Client helper (lib/utils/time.ts).  A Date of the current day is the    *)
(* number of minutes since its local midnight; the day has no clock change.*)
(***************************************************************************)
\* new Date(baseDate).setHours(hours, minutes): hours and minutes beyond
\* their range roll over; NaN gives an invalid date.
setHours(hours, minutes) == Add(Mul(hours, Num(60)), minutes)

\* date-fns addHours(date, amount)
addHours(date, amount) == Add(date, Num(60 * amount))

\* date-fns differenceInMinutes(left, right): whole minutes, towards zero
differenceInMinutes(left, right) == Trunc(Sub(left, right))

\* calculateDuration that also wraps when the two times are equal.
calculateDuration_WrapOnEqual(startTime, endTime) ==
  LET startDate == setHours(At(SplitMapNumber(startTime.str), 1), At(SplitMapNumber(startTime.str), 2))
      endDate0  == setHours(At(SplitMapNumber(endTime.str), 1), At(SplitMapNumber(endTime.str), 2))
      endDate   == IF ~Negative(Sub(startDate, endDate0)) THEN addHours(endDate0, 24) ELSE endDate0
  IN  Div(differenceInMinutes(endDate, startDate), Num(60))

\* calculateDuration without the overnight branch.
calculateDuration_NoWrap(startTime, endTime) ==
  LET startDate == setHours(At(SplitMapNumber(startTime.str), 1), At(SplitMapNumber(startTime.str), 2))
      endDate   == setHours(At(SplitMapNumber(endTime.str), 1), At(SplitMapNumber(endTime.str), 2))
  IN  Div(differenceInMinutes(endDate, startDate), Num(60))

\* calculateDuration(startTime, endTime)
calculateDuration(startTime, endTime) ==
  LET startHours   == At(SplitMapNumber(startTime.str), 1)
      startMinutes == At(SplitMapNumber(startTime.str), 2)
      endHours     == At(SplitMapNumber(endTime.str), 1)
      endMinutes   == At(SplitMapNumber(endTime.str), 2)
      startDate    == setHours(startHours, startMinutes)
      endDate0     == setHours(endHours, endMinutes)
      endDate      == IF Negative(Sub(endDate0, startDate)) THEN addHours(endDate0, 24) ELSE endDate0
      durationMinutes == differenceInMinutes(endDate, startDate)
  IN  Div(durationMinutes, Num(60))

\* A pending call calculateDuration(startTime, endTime) returns.
CallCalculateDuration ==
  /\ DOMAIN clientDuration = {"startTime", "endTime", "hours"}
  /\ clientDuration.hours = Undefined
  /\ clientDuration' = [clientDuration EXCEPT
                          !.hours = calculateDuration(clientDuration.startTime, clientDuration.endTime)]
  /\ UNCHANGED <<storageVars, res, projectVars, listing, timezoneOffset, viewVars, users, requests, bootVars, uiVars>>

\* The arguments of a call that has not returned yet.
PendingCall(startTime, endTime) == [startTime |-> startTime, endTime |-> endTime, hours |-> Undefined]

(***************************************************************************)
(* Client components over the time entries they were handed.  The totals   *)
(* of MonthlySummary are doubles; the arithmetic of the export is exact    *)
(* (its inputs keep every product away from a rounding tie).               *)
(***************************************************************************)
RECURSIVE reduceSum(_, _)
\* entries.reduce((sum, entry) => sum + parseFloat(entry[field]), 0), for
\* fields that hold decimal strings of numbers that are not negative.
reduceSum(entries, field) ==
  IF entries = <<>> THEN F64Zero
  ELSE F64Add(reduceSum(SubSeq(entries, 1, Len(entries) - 1), field),
              F64OfRational(parseFloat(entries[Len(entries)][field])))

\* A slip: reduce without its initial value throws on an empty array.
MonthlySummary_NoInitialValue(entries) ==
  IF entries = <<>> THEN [error |-> "TypeError"]
  ELSE [totalHours |-> reduceSum(entries, "duration"),
        totalEarnings |-> reduceSum(entries, "earnings")]

\* RecentTimeEntries: the rows shown are timeEntries.slice(0, 5).
RecentTimeEntries(entries) == SubSeq(entries, 1, IF Len(entries) < 5 THEN Len(entries) ELSE 5)

\* MonthlySummary: totalHours and totalEarnings of the entries fetched.
MonthlySummary(entries) ==
  [totalHours |-> reduceSum(entries, "duration"),
   totalEarnings |-> reduceSum(entries, "earnings")]

\* MonthlySummary renders.
RenderMonthlySummary ==
  /\ summary = Undefined
  /\ summary' = MonthlySummary(clientEntries)
  /\ UNCHANGED <<storageVars, res, clientDuration, projectVars, listing, timezoneOffset,
                  clientEntries, groups, exported,
                  users, requests, bootVars, uiVars>>

RECURSIVE groupEntriesByDate_Overwrite(_)
\* A slip: the group of a date is replaced by its last entry.
groupEntriesByDate_Overwrite(entries) ==
  IF entries = <<>> THEN <<>>
  ELSE LET acc   == groupEntriesByDate_Overwrite(SubSeq(entries, 1, Len(entries) - 1))
           entry == entries[Len(entries)]
       IN  MapSet(acc, entry["date"], <<entry>>)

RECURSIVE groupEntriesByDate(_)
\* groupEntriesByDate: the object whose keys are the dates and whose values
\* are the arrays the entries were pushed to.
groupEntriesByDate(entries) ==
  IF entries = <<>> THEN <<>>
  ELSE LET acc   == groupEntriesByDate(SubSeq(entries, 1, Len(entries) - 1))
           entry == entries[Len(entries)]
           date  == entry["date"]
       IN  MapSet(acc, date, (IF date \in DOMAIN acc THEN acc[date] ELSE <<>>) \o <<entry>>)

\* A call groupEntriesByDate(entries) returns; byDate is the object returned.
CallGroupEntriesByDate ==
  /\ groups = Undefined
  /\ groups' = [byDate |-> groupEntriesByDate(clientEntries)]
  /\ UNCHANGED <<storageVars, res, clientDuration, projectVars, listing, timezoneOffset,
                  clientEntries, summary, exported,
                  users, requests, bootVars, uiVars>>

\* ToNumber of an operand of * : a number, or a string that is a decimal
\* literal ("" is 0); anything else is NaN.
ToNumber(v) ==
  IF IsNum(v) THEN v
  ELSE IF ~IsStr(v) THEN NaN
  ELSE IF v.str = <<>> THEN Num(0)
  ELSE LET s    == IF v.str[1] = "-" THEN Tail(v.str) ELSE v.str
           il   == DigitPrefixLen(s)
           rest == SubSeq(s, il + 1, Len(s))
       IN  IF il > 0 /\ (rest = <<>> \/ (rest[1] = "." /\ AllDigits(Tail(rest))))
           THEN ParseFloatStr(v.str) ELSE NaN

\* Math.round: the nearest integer, the larger one on a tie.
MathRound(x) == IF IsNum(x) THEN Num((2 * x.n + x.d) \div (2 * x.d)) ELSE NaN

\* String(v) inside a template literal, for a string or an integer.
TemplateString(v) ==
  IF IsStr(v) THEN v.str ELSE IF IsNum(v) THEN NumToString(v).str ELSE <<"N", "a", "N">>

\* calculateMinutes(start, end)
calculateMinutes(start, end) ==
  LET startHour   == At(SplitMapNumber(start.str), 1)
      startMinute == At(SplitMapNumber(start.str), 2)
      endHour     == At(SplitMapNumber(end.str), 1)
      endMinute   == At(SplitMapNumber(end.str), 2)
  IN  Sub(Add(Mul(endHour, Num(60)), endMinute), Add(Mul(startHour, Num(60)), startMinute))

\* The payment of one entry: Math.round(totalMinutes / 60 * hourlyRate).
entryPayment(entry) ==
  LET totalMinutes == calculateMinutes(entry["startTime"], entry["endTime"])
      hourlyRate   == Or(Get(entry, "hourlyRate"), Num(0))
  IN  MathRound(Mul(Div(totalMinutes, Num(60)), ToNumber(hourlyRate)))

\* The cells of a row of the export that hold hours or money.
exportRow(entry) ==
  LET totalMinutes == calculateMinutes(entry["startTime"], entry["endTime"])
      hourlyRate   == Or(Get(entry, "hourlyRate"), Num(0))
  IN  [hoursWorked |-> toFixed2(Div(totalMinutes, Num(60))),
       hourlyRate  |-> Str(TemplateString(hourlyRate) \o <<" ", "C", "Z", "K">>),
       payment     |-> Str(TemplateString(entryPayment(entry)) \o <<" ", "C", "Z", "K">>)]

RECURSIVE calculateTotalPayment(_)
\* calculateTotalPayment(entries); also the totalPayment generatePdfExport
\* adds up row by row.
calculateTotalPayment(entries) ==
  IF entries = <<>> THEN Num(0)
  ELSE Add(calculateTotalPayment(SubSeq(entries, 1, Len(entries) - 1)),
           entryPayment(entries[Len(entries)]))

\* The rows and the total payment line of generatePdfExport.
generatePdfExport(entries) ==
  [format |-> "pdf",
   rows |-> [i \in 1..Len(entries) |-> exportRow(entries[i])],
   totalPayment |-> Str(TemplateString(calculateTotalPayment(entries)))]

\* The rows and the total payment line of generateExcelExport.
generateExcelExport(entries) ==
  [format |-> "xlsx",
   rows |-> [i \in 1..Len(entries) |-> exportRow(entries[i])],
   totalPayment |-> Str(TemplateString(calculateTotalPayment(entries)))]

GeneratePdfExport ==
  /\ exported = Undefined
  /\ exported' = generatePdfExport(clientEntries)
  /\ UNCHANGED <<storageVars, res, clientDuration, projectVars, listing, timezoneOffset,
                  clientEntries, summary, groups,
                  users, requests, bootVars, uiVars>>

GenerateExcelExport ==
  /\ exported = Undefined
  /\ exported' = generateExcelExport(clientEntries)
  /\ UNCHANGED <<storageVars, res, clientDuration, projectVars, listing, timezoneOffset,
                  clientEntries, summary, groups,
                  users, requests, bootVars, uiVars>>

(***************************************************************************)
(* Client pages: the Dashboard with its recent entries and the Time        *)
(* Entries page with its pagination.  Of the list the pages fetched only   *)
(* the length matters here; an entry is named by its position in the list. *)
(***************************************************************************)
itemsPerPage == 10

\* Math.ceil(timeEntries.length / itemsPerPage)
totalPages == (entryCount + itemsPerPage - 1) \div itemsPerPage

\* The positions of timeEntries.slice((currentPage - 1) * itemsPerPage,
\* currentPage * itemsPerPage).
paginatedEntries ==
  {i \in 1..entryCount : (currentPage - 1) * itemsPerPage < i /\ i <= currentPage * itemsPerPage}

\* The listeners of 'openEditModal' on window: handleEditModal of the
\* Dashboard between its mount and its unmount, and no other.
openEditModalListeners == IF page = "/" THEN {"handleEditModal"} ELSE {}

\* A link of the layout is followed: the page of the route is mounted, the
\* Time Entries page with currentPage = 1.
Navigate(to) ==
  /\ callStack = 0
  /\ to # page
  /\ page' = to
  /\ currentPage' = 1
  /\ UNCHANGED <<storageVars, res, clientDuration, projectVars, listing, timezoneOffset, viewVars,
                  users, requests, bootVars, entryCount, isEditModalOpen, currentEntryId, clicked>>
  /\ UNCHANGED callStack

\* RecentTimeEntries: the edit button of one of the rows slice(0, 5) calls
\* onEditEntry(id) of the Dashboard.
ClickEditRecent(id) ==
  /\ page = "/"
  /\ callStack = 0
  /\ id <= entryCount /\ id <= 5
  /\ clicked' = id
  /\ callStack' = 1
  /\ UNCHANGED <<storageVars, res, clientDuration, projectVars, listing, timezoneOffset, viewVars,
                  users, requests, bootVars, page, currentPage, entryCount, isEditModalOpen,
                  currentEntryId>>

\* onEditEntry(id) of the Dashboard runs: window.app is set, its
\* openEditModal dispatches 'openEditModal', whose listener handleEditModal
\* calls onEditEntry(id) again, one frame deeper.
OnEditEntry(limit) ==
  /\ callStack > 0
  /\ callStack < limit
  /\ callStack' = IF "handleEditModal" \in openEditModalListeners THEN callStack + 1 ELSE 0
  /\ UNCHANGED <<storageVars, res, clientDuration, projectVars, listing, timezoneOffset, viewVars,
                  users, requests, bootVars, page, currentPage, entryCount, isEditModalOpen,
                  currentEntryId, clicked>>

\* The stack is full: RangeError, the click handler is abandoned.
StackOverflow(limit) ==
  /\ callStack = limit
  /\ callStack' = 0
  /\ UNCHANGED <<storageVars, res, clientDuration, projectVars, listing, timezoneOffset, viewVars,
                  users, requests, bootVars, page, currentPage, entryCount, isEditModalOpen,
                  currentEntryId, clicked>>

\* TimeEntries.handleEditEntry(id): 'openEditModal' is dispatched to the
\* listeners there are.
HandleEditEntry(id) ==
  /\ page = "/time-entries"
  /\ callStack = 0
  /\ id \in paginatedEntries
  /\ clicked' = id
  /\ callStack' = IF "handleEditModal" \in openEditModalListeners THEN 1 ELSE 0
  /\ UNCHANGED <<storageVars, res, clientDuration, projectVars, listing, timezoneOffset, viewVars,
                  users, requests, bootVars, page, currentPage, entryCount, isEditModalOpen,
                  currentEntryId>>

\* The button of page i (the controls are rendered when there are more than
\* itemsPerPage entries).
ClickPage(i) ==
  /\ page = "/time-entries"
  /\ callStack = 0
  /\ entryCount > itemsPerPage
  /\ i \in 1..totalPages
  /\ currentPage' = i
  /\ UNCHANGED <<storageVars, res, clientDuration, projectVars, listing, timezoneOffset, viewVars,
                  users, requests, bootVars, page, entryCount, isEditModalOpen, currentEntryId,
                  clicked, callStack>>

\* Previous: disabled on page 1.
ClickPrevious ==
  /\ page = "/time-entries"
  /\ callStack = 0
  /\ entryCount > itemsPerPage
  /\ currentPage # 1
  /\ currentPage' = IF currentPage - 1 > 1 THEN currentPage - 1 ELSE 1
  /\ UNCHANGED <<storageVars, res, clientDuration, projectVars, listing, timezoneOffset, viewVars,
                  users, requests, bootVars, page, entryCount, isEditModalOpen, currentEntryId,
                  clicked, callStack>>

\* Next: disabled on the page totalPages.
ClickNext ==
  /\ page = "/time-entries"
  /\ callStack = 0
  /\ entryCount > itemsPerPage
  /\ currentPage # totalPages
  /\ currentPage' = IF currentPage + 1 < totalPages THEN currentPage + 1 ELSE totalPages
  /\ UNCHANGED <<storageVars, res, clientDuration, projectVars, listing, timezoneOffset, viewVars,
                  users, requests, bootVars, page, entryCount, isEditModalOpen, currentEntryId,
                  clicked, callStack>>

\* The delete button of a row that is shown, confirmed: the entry is
\* deleted and the list is fetched again.
HandleDeleteEntry ==
  /\ callStack = 0
  /\ \/ page = "/time-entries" /\ paginatedEntries # {}
     \/ page = "/" /\ entryCount > 0
  /\ entryCount' = entryCount - 1
  /\ UNCHANGED <<storageVars, res, clientDuration, projectVars, listing, timezoneOffset, viewVars,
                  users, requests, bootVars, page, currentPage, isEditModalOpen, currentEntryId,
                  clicked, callStack>>

(***************************************************************************)
(* Start of the server process: the storage module is loaded (its imports  *)
(* first), then the server listens.                                        *)
(***************************************************************************)
\* The module db.ts: it throws unless DATABASE_URL is set.
dbModule ==
  IF ~Truthy(Get(env, "DATABASE_URL"))
  THEN [error |-> "DATABASE_URL environment variable is required"]
  ELSE [db |-> Get(env, "DATABASE_URL")]

\* The module storage.ts: its import of ./dbStorage, which imports ./db, is
\* evaluated before its body; the body chooses the storage.
storageModule ==
  IF "error" \in DOMAIN dbModule THEN dbModule
  ELSE IF Truthy(Get(env, "DATABASE_URL")) THEN [class |-> "DbStorage"] ELSE [class |-> "MemStorage"]

\* The server process imports ./routes, which imports ./storage.
LoadStorage ==
  /\ storage = Undefined
  /\ storage' = storageModule
  /\ UNCHANGED <<storageVars, res, clientDuration, projectVars, listing, timezoneOffset, viewVars,
                  users, requests, env, server, portsInUse, uiVars>>

\* const port = process.env.PORT || 5000
port == Or(Get(env, "PORT"), Num(5000))

altPort == Num(5001)

\* startServer(usePort): server.listen is called and one more listener of
\* 'error', closed over usePort, is added to the server.
startServer(srv, usePort) ==
  [srv EXCEPT !.attempts = Append(@, usePort),
              !.listeners = Append(@, usePort),
              !.pending = usePort]

\* startServer(Number(port)), once the modules are loaded.
StartServer ==
  /\ server = Undefined
  /\ "class" \in DOMAIN storage
  /\ server' = startServer([attempts |-> <<>>, listeners |-> <<>>, pending |-> Undefined,
                             listening |-> Undefined, log |-> <<>>],
                            ToNumber(port))
  /\ UNCHANGED <<storageVars, res, clientDuration, projectVars, listing, timezoneOffset, viewVars,
                  users, requests, env, storage, portsInUse, uiVars>>

\* The pending listen succeeds: 'listening' is emitted and the callback of
\* every listen call made so far logs its port.
ListenSucceeds ==
  /\ server # Undefined
  /\ server.pending # Undefined
  /\ server.pending \notin portsInUse
  /\ server' = [server EXCEPT !.pending = Undefined, !.listening = server.pending,
                               !.log = @ \o [i \in DOMAIN server.attempts |->
                                                <<"serving on port", server.attempts[i]>>]]
  /\ UNCHANGED <<storageVars, res, clientDuration, projectVars, listing, timezoneOffset, viewVars,
                  users, requests, env, storage, portsInUse, uiVars>>

\* The pending listen fails (with EADDRINUSE exactly when the port is in
\* use): 'error' is emitted and every listener added so far runs.  A listener whose usePort === port starts the server on
\* altPort when the code is EADDRINUSE; the other listeners log the error.
ListenFails(code) ==
  LET retries == {i \in DOMAIN server.listeners : code = "EADDRINUSE" /\ server.listeners[i] = port}
      logged  == [i \in DOMAIN server.listeners |->
                    IF i \in retries THEN <<"in use, trying alternative port", altPort>>
                    ELSE <<"Error starting server", code>>]
      failed  == [server EXCEPT !.pending = Undefined, !.log = @ \o logged]
  IN  /\ server # Undefined
      /\ server.pending # Undefined
      /\ code = "EADDRINUSE" <=> server.pending \in portsInUse
      /\ server' = IF retries = {} THEN failed ELSE startServer(failed, altPort)
      /\ UNCHANGED <<storageVars, res, clientDuration, projectVars, listing, timezoneOffset, viewVars,
                      users, requests, env, storage, portsInUse, uiVars>>

(***************************************************************************)
(* Inputs                                                                  *)
(***************************************************************************)
\* The time string "HH:MM" of hour h and minute m.
HHMM(h, m) ==
  Str(<<Digits[(h \div 10) + 1], Digits[(h % 10) + 1], ":",
        Digits[(m \div 10) + 1], Digits[(m % 10) + 1]>>)

Date0301 == Str(<<"2", "0", "2", "4", "-", "0", "3", "-", "0", "1">>)

Date0302 == Str(<<"2", "0", "2", "4", "-", "0", "3", "-", "0", "2">>)

Date0401 == Str(<<"2", "0", "2", "4", "-", "0", "4", "-", "0", "1">>)

Rate0 == Str(<<"0">>)

Rate20 == Str(<<"2", "0">>)

Rate1250 == Str(<<"1", "2", ".", "5", "0">>)

NoResponse == Response("", 0, {}, 0)

\* Well-formed HH:MM strings and their reading.
ValidTime(t) ==
  /\ IsStr(t)
  /\ Len(t.str) = 5
  /\ t.str[3] = ":"
  /\ \A i \in {1, 2, 4, 5} : IsDigit(t.str[i])
  /\ DecVal(SubSeq(t.str, 1, 2)) < 24
  /\ DecVal(SubSeq(t.str, 4, 5)) < 60

\* Minutes since midnight of a well-formed time.
MinutesOf(t) == 60 * DecVal(SubSeq(t.str, 1, 2)) + DecVal(SubSeq(t.str, 4, 5))

\* The projects the constructor of MemStorage creates.
DefaultProjects ==
  <<[id |-> Num(1), userId |-> Num(1),
     name |-> Str(<<"W", "e", "b", "s", "i", "t", "e", " ", "D", "e", "v", "e", "l", "o", "p", "m", "e", "n", "t">>),
     color |-> Str(<<"#", "3", "b", "8", "2", "f", "6">>)],
    [id |-> Num(2), userId |-> Num(1),
     name |-> Str(<<"U", "I", " ", "D", "e", "s", "i", "g", "n">>),
     color |-> Str(<<"#", "6", "3", "6", "6", "f", "1">>)],
    [id |-> Num(3), userId |-> Num(1),
     name |-> Str(<<"C", "o", "n", "t", "e", "n", "t", " ", "C", "r", "e", "a", "t", "i", "o", "n">>),
     color |-> Str(<<"#", "1", "0", "b", "9", "8", "1">>)],
    [id |-> Num(4), userId |-> Num(1),
     name |-> Str(<<"M", "a", "r", "k", "e", "t", "i", "n", "g">>),
     color |-> Str(<<"#", "f", "5", "9", "e", "0", "b">>)]>>

\* The part of the state after construction that the routes of a
\* specification leave alone: the default projects, no list served yet, a
\* server in UTC, no component rendered.
InitProjects == projects = DefaultProjects /\ projectIdCounter = 5

InitViews == clientEntries = <<>> /\ summary = Undefined /\ groups = Undefined /\ exported = Undefined

\* The default user, and no PATCH of a time entry in flight.
InitUsers == users = DefaultUsers /\ requests = <<>>

\* The storage module and the server as the routes see them: loaded and
\* listening are not part of the specifications of the routes.
InitBoot == env = <<>> /\ storage = Undefined /\ server = Undefined /\ portsInUse = {}

\* The client on the Dashboard before any click.
InitUi ==
  /\ page = "/"
  /\ currentPage = 1
  /\ entryCount = 0
  /\ isEditModalOpen = FALSE
  /\ currentEntryId = Null
  /\ clicked = 0
  /\ callStack = 0

InitIdle ==
  InitProjects /\ listing = Undefined /\ timezoneOffset = 0 /\ InitViews /\ InitUsers /\ InitBoot /\ InitUi

(***************************************************************************)
(* SpecCalc: one entry at a time is created, edited and deleted with       *)
(* well-formed times and rates; the client helper is called once.          *)
(***************************************************************************)
MaxCalcIds == 2

CalcTimes ==
  {HHMM(6, 0), HHMM(9, 45), HHMM(11, 15), HHMM(17, 15), HHMM(22, 0), HHMM(22, 20)}

CalcRates == {Rate0, Rate20, Rate1250}

CalcCalls == {PendingCall(HHMM(9, 0), HHMM(9, 0))}

CalcPostBodies ==
  {[projectId |-> Num(1), date |-> Date0301, startTime |-> s, endTime |-> e, hourlyRate |-> r] :
     s \in CalcTimes, e \in CalcTimes, r \in CalcRates}

\* The body that re-submits the stored startTime, endTime and hourlyRate.
ResubmitBody(id) ==
  [startTime |-> timeEntries[id]["startTime"],
   endTime |-> timeEntries[id]["endTime"],
   hourlyRate |-> timeEntries[id]["hourlyRate"]]

CalcPatchBodies(id) ==
  {[startTime |-> s] : s \in CalcTimes} \cup {[endTime |-> e] : e \in CalcTimes}
    \cup {[hourlyRate |-> r] : r \in CalcRates}
    \cup (IF id \in DOMAIN timeEntries THEN {ResubmitBody(id)} ELSE {})

InitCalc ==
  /\ timeEntries = <<>>
  /\ timeEntryIdCounter = 1
  /\ monthlyReports = <<>>
  /\ monthlyReportIdCounter = 1
  /\ res = NoResponse
  /\ clientDuration \in CalcCalls
  /\ InitIdle

CalcPost ==
  \E body \in CalcPostBodies :
    /\ DOMAIN timeEntries = {}
    /\ timeEntryIdCounter <= MaxCalcIds
    /\ PostTimeEntry(body)

CalcPatch == \E id \in 1..MaxCalcIds : \E body \in CalcPatchBodies(id) : PatchTimeEntry(id, body)

CalcDelete == \E id \in 1..MaxCalcIds : DeleteTimeEntry(id)

NextCalc == CalcPost \/ CalcPatch \/ CalcDelete \/ CallCalculateDuration

SpecCalc == InitCalc /\ [][NextCalc]_vars

(***************************************************************************)
(* SpecClient: the client helper on a grid of well-formed times.           *)
(***************************************************************************)
ClientHours == 0..23

ClientMinutes == {0, 1, 15, 30, 45, 59}

ClientTimes == {HHMM(h, m) : h \in ClientHours, m \in ClientMinutes}

InitClient ==
  /\ timeEntries = <<>>
  /\ timeEntryIdCounter = 1
  /\ monthlyReports = <<>>
  /\ monthlyReportIdCounter = 1
  /\ res = NoResponse
  /\ clientDuration \in {PendingCall(s, e) : s \in ClientTimes, e \in ClientTimes}
  /\ InitIdle

NextClient == CallCalculateDuration

SpecClient == InitClient /\ [][NextClient]_vars

(***************************************************************************)
(* SpecBody: one entry at a time is created, edited and deleted with       *)
(* arbitrary request bodies: malformed times, numbers where strings are    *)
(* expected, missing fields, client-supplied duration and earnings.        *)
(***************************************************************************)
MaxBodyIds == 1

TimeAb00 == Str(<<"a", "b", ":", "0", "0">>)

Time2500 == Str(<<"2", "5", ":", "0", "0">>)

Time0975 == Str(<<"0", "9", ":", "7", "5">>)

Supplied99 == Str(<<"9", "9", ".", "0", "0">>)

BodyStartTimes == {HHMM(9, 0), HHMM(22, 0), TimeAb00, Num(900)}

BodyEndTimes == {HHMM(17, 30), HHMM(6, 0), Time2500, Time0975, Str(<<>>)}

BodyRates == {Rate20, Rate0, Num(0)}

\* Form submissions, with and without a date and client-supplied derived
\* fields.
BodyPostBodies ==
  {Json([projectId |-> Num(1), date |-> d, startTime |-> s, endTime |-> e, hourlyRate |-> r,
         duration |-> x, earnings |-> x]) :
     d \in {Date0301, Undefined}, s \in BodyStartTimes, e \in BodyEndTimes, r \in BodyRates,
     x \in {Undefined, Supplied99}}

BodyPatchBodies(id) ==
  {[startTime |-> s] : s \in BodyStartTimes} \cup {[endTime |-> e] : e \in BodyEndTimes}
    \cup {[hourlyRate |-> r] : r \in BodyRates}
    \cup {[duration |-> Supplied99], [earnings |-> Supplied99]}
    \cup {[startTime |-> HHMM(9, 0), duration |-> Supplied99]}
    \cup (IF id \in DOMAIN timeEntries THEN {ResubmitBody(id)} ELSE {})

InitBody ==
  /\ timeEntries = <<>>
  /\ timeEntryIdCounter = 1
  /\ monthlyReports = <<>>
  /\ monthlyReportIdCounter = 1
  /\ res = NoResponse
  /\ clientDuration = Undefined
  /\ InitIdle

BodyPost ==
  \E body \in BodyPostBodies :
    /\ DOMAIN timeEntries = {}
    /\ timeEntryIdCounter <= MaxBodyIds
    /\ PostTimeEntry(body)

BodyPatch == \E id \in 1..MaxBodyIds : \E body \in BodyPatchBodies(id) : PatchTimeEntry(id, body)

BodyDelete == \E id \in 1..MaxBodyIds : DeleteTimeEntry(id)

NextBody == BodyPost \/ BodyPatch \/ BodyDelete

SpecBody == InitBody /\ [][NextBody]_vars

(***************************************************************************)
(* Spec: the store of time entries and monthly reports under well-formed   *)
(* requests of user 1: entries of eight hours on three dates of two        *)
(* months, reports of March whose aggregates are those of no or one such   *)
(* day.                                                                    *)
(***************************************************************************)
MaxTimeEntries == 2

MaxMonthlyReports == 1

StoreDates == {Date0301, Date0302, Date0401}

StorePostBodies ==
  {Json([projectId |-> Num(1), date |-> d, startTime |-> HHMM(9, 0), endTime |-> HHMM(17, 0),
         hourlyRate |-> Rate20]) : d \in StoreDates \cup {Undefined}}

StorePatchBodies == {[date |-> Date0401], [endTime |-> HHMM(13, 0)]}

\* hoursWorked, daysWorked, dailyAverage, totalEarnings of n days of eight
\* hours at rate 20.
Aggregates(n) ==
  [hoursWorked |-> toFixed2(Num(8 * n)), daysWorked |-> Num(n),
   dailyAverage |-> toFixed2(Num(IF n = 0 THEN 0 ELSE 8)), totalEarnings |-> toFixed2(Num(160 * n))]

ReportPostBodies ==
  {Json(Spread(Aggregates(n), [year |-> Num(2024), month |-> Num(m), isCompleted |-> c])) :
     n \in 0..1, m \in {3}, c \in {Undefined, Bool(TRUE)}}
    \cup {[year |-> Num(2024), month |-> Num(3)]}

ReportPatchBodies ==
  {Aggregates(n) : n \in 0..1} \cup {[isCompleted |-> Bool(b)] : b \in BOOLEAN}

Init ==
  /\ timeEntries = <<>>
  /\ timeEntryIdCounter = 1
  /\ monthlyReports = <<>>
  /\ monthlyReportIdCounter = 1
  /\ res = NoResponse
  /\ clientDuration = Undefined
  /\ InitIdle

StorePost ==
  \E body \in StorePostBodies : timeEntryIdCounter <= MaxTimeEntries /\ PostTimeEntry(body)

StorePatch == \E id \in 1..(MaxTimeEntries + 1) : \E body \in StorePatchBodies : PatchTimeEntry(id, body)

StoreDelete == \E id \in 1..(MaxTimeEntries + 1) : DeleteTimeEntry(id)

ReportPost ==
  \E body \in ReportPostBodies : monthlyReportIdCounter <= MaxMonthlyReports /\ PostMonthlyReport(body)

ReportPatch ==
  \E id \in 1..(MaxMonthlyReports + 1) : \E body \in ReportPatchBodies : PatchMonthlyReport(id, body)

Next == StorePost \/ StorePatch \/ StoreDelete \/ ReportPost \/ ReportPatch

Spec == Init /\ [][Next]_vars

(***************************************************************************)
(* SpecReport: the monthly-report routes alone.  Reports of March and      *)
(* April 2024 are created, re-keyed, recomputed, completed and read.       *)
(***************************************************************************)
MaxReportIds == 2

AggregateKeys == {"hoursWorked", "daysWorked", "dailyAverage", "totalEarnings"}

ReportMonths == {3, 4}

ReportBodies ==
  {Json(Spread(Aggregates(n), [year |-> Num(2024), month |-> Num(m), isCompleted |-> c])) :
     n \in 0..1, m \in ReportMonths, c \in {Undefined, Bool(TRUE)}}

ReportUpdateBodies ==
  {Aggregates(n) : n \in 0..1} \cup {[isCompleted |-> Bool(FALSE)], [month |-> Num(4)]}

InitReport ==
  /\ timeEntries = <<>>
  /\ timeEntryIdCounter = 1
  /\ monthlyReports = <<>>
  /\ monthlyReportIdCounter = 1
  /\ res = NoResponse
  /\ clientDuration = Undefined
  /\ InitIdle

ReportCreate ==
  \E body \in ReportBodies : monthlyReportIdCounter <= MaxReportIds /\ PostMonthlyReport(body)

ReportUpdate ==
  \E id \in 1..(MaxReportIds + 1) : \E body \in ReportUpdateBodies : PatchMonthlyReport(id, body)

ReportGet == \E month \in ReportMonths : GetMonthlyReport(2024, month)

NextReport == ReportCreate \/ ReportUpdate \/ ReportGet

SpecReport == InitReport /\ [][NextReport]_vars

(***************************************************************************)
(* SpecMonth: entries dated on the last day of a month of 28, 29, 31 and   *)
(* 30 days and on the first day of the next month are created, moved to    *)
(* another user and listed by month, on a server in UTC, in Prague (CET)   *)
(* or in New York (EST).                                                   *)
(***************************************************************************)
MaxMonthIds == 2

\* getTimezoneOffset() of UTC, Europe/Prague in winter, America/New_York in winter
TimezoneOffsets == {0, 0 - 60, 300}

MonthDates ==
  {Str(<<"2", "0", "2", "3", "-", "0", "2", "-", "2", "8">>),
   Str(<<"2", "0", "2", "3", "-", "0", "3", "-", "0", "1">>),
   Str(<<"2", "0", "2", "4", "-", "0", "2", "-", "2", "9">>),
   Str(<<"2", "0", "2", "4", "-", "0", "3", "-", "0", "1">>),
   Str(<<"2", "0", "2", "4", "-", "0", "3", "-", "3", "1">>),
   Str(<<"2", "0", "2", "4", "-", "0", "4", "-", "0", "1">>),
   Str(<<"2", "0", "2", "4", "-", "0", "4", "-", "3", "0">>),
   Str(<<"2", "0", "2", "4", "-", "0", "5", "-", "0", "1">>)}

MonthPostBodies ==
  {[projectId |-> Num(1), date |-> d, startTime |-> HHMM(9, 0), endTime |-> HHMM(17, 0),
    hourlyRate |-> Rate20] : d \in MonthDates}

MonthPatchBodies == {[userId |-> Num(2)]}

MonthKeys == {<<2023, 2>>, <<2024, 2>>, <<2024, 3>>, <<2024, 4>>}

InitMonth ==
  /\ timeEntries = <<>>
  /\ timeEntryIdCounter = 1
  /\ monthlyReports = <<>>
  /\ monthlyReportIdCounter = 1
  /\ res = NoResponse
  /\ clientDuration = Undefined
  /\ InitProjects
  /\ listing = Undefined
  /\ timezoneOffset \in TimezoneOffsets
  /\ InitViews
  /\ InitUsers
  /\ InitBoot
  /\ InitUi

MonthPost == \E body \in MonthPostBodies : timeEntryIdCounter <= MaxMonthIds /\ PostTimeEntry(body)

MonthPatch == \E id \in 1..MaxMonthIds : \E body \in MonthPatchBodies : PatchTimeEntry(id, body)

MonthGet == \E key \in MonthKeys : GetTimeEntriesByMonth(key[1], key[2])

NextMonth == MonthPost \/ MonthPatch \/ MonthGet

SpecMonth == InitMonth /\ [][NextMonth]_vars

(***************************************************************************)
(* SpecRoutes: every by-id route of time entries, projects and monthly     *)
(* reports, with the reads, on stored and on missing ids.                  *)
(***************************************************************************)
MaxRouteEntries == 2

MaxRouteReports == 1

RoutePostBodies ==
  {[projectId |-> Num(1), date |-> Date0301, startTime |-> HHMM(9, 0), endTime |-> HHMM(17, 0),
    hourlyRate |-> Rate20]}

RoutePatchBodies == {[endTime |-> HHMM(13, 0)]}

\* the last default project and the first id never given out
RouteProjectIds == {4, 5}

RouteProjectBodies == {[name |-> Str(<<"M", "a", "r", "k", "e", "t", "i", "n", "g">>)]}

RouteReportBodies ==
  {Json(Spread(Aggregates(0), [year |-> Num(2024), month |-> Num(3), isCompleted |-> c])) :
     c \in {Undefined, Bool(TRUE)}}

RouteReportPatchBodies == {Aggregates(0), [isCompleted |-> Bool(FALSE)]}

InitRoutes ==
  /\ timeEntries = <<>>
  /\ timeEntryIdCounter = 1
  /\ monthlyReports = <<>>
  /\ monthlyReportIdCounter = 1
  /\ res = NoResponse
  /\ clientDuration = Undefined
  /\ InitIdle

RoutePostEntry ==
  \E body \in RoutePostBodies : timeEntryIdCounter <= MaxRouteEntries /\ PostTimeEntry(body)

RoutePatchEntry ==
  \E id \in 1..(MaxRouteEntries + 1) : \E body \in RoutePatchBodies : PatchTimeEntry(id, body)

RouteDeleteEntry == \E id \in 1..(MaxRouteEntries + 1) : DeleteTimeEntry(id)

RouteGetEntry == \E id \in 1..(MaxRouteEntries + 1) : GetTimeEntry(id)

RouteListEntries == GetTimeEntries

RouteGetProject == \E id \in RouteProjectIds : GetProject(id)

RoutePatchProject == \E id \in RouteProjectIds : \E body \in RouteProjectBodies : PatchProject(id, body)

RouteDeleteProject == \E id \in RouteProjectIds : DeleteProject(id)

RoutePostReport ==
  \E body \in RouteReportBodies : monthlyReportIdCounter <= MaxRouteReports /\ PostMonthlyReport(body)

RoutePatchReport ==
  \E id \in 1..(MaxRouteReports + 1) : \E body \in RouteReportPatchBodies : PatchMonthlyReport(id, body)

RouteGetReport == \E month \in {3, 4} : GetMonthlyReport(2024, month)

NextRoutes ==
  \/ RoutePostEntry \/ RoutePatchEntry \/ RouteDeleteEntry
  \/ RouteGetEntry \/ RouteListEntries
  \/ RouteGetProject \/ RoutePatchProject \/ RouteDeleteProject
  \/ RoutePostReport \/ RoutePatchReport \/ RouteGetReport

SpecRoutes == InitRoutes /\ [][NextRoutes]_vars

(***************************************************************************)
(* SpecView: the client components are handed a list of entries as the     *)
(* server stores them (POST of the times and rate shown) in any order, and *)
(* compute the totals, the groups and the export of it.                    *)
(***************************************************************************)
MaxViewEntries == 3

ViewEntry(id, date, startTime, endTime, duration, hourlyRate, earnings) ==
  [id |-> Num(id), userId |-> Num(1), projectId |-> Num(1), date |-> date,
   startTime |-> startTime, endTime |-> endTime, duration |-> Str(duration),
   hourlyRate |-> hourlyRate, earnings |-> Str(earnings), notes |-> Null]

ViewEntries ==
  {ViewEntry(1, Date0301, HHMM(9, 0), HHMM(9, 6), <<"0", ".", "1", "0">>, Rate20, <<"2", ".", "0", "0">>),
   ViewEntry(2, Date0301, HHMM(9, 6), HHMM(9, 18), <<"0", ".", "2", "0">>, Rate20, <<"4", ".", "0", "0">>),
   ViewEntry(3, Date0302, HHMM(9, 0), HHMM(9, 42), <<"0", ".", "7", "0">>, Rate20, <<"1", "4", ".", "0", "0">>),
   ViewEntry(4, Date0302, HHMM(9, 0), HHMM(17, 30), <<"8", ".", "5", "0">>, Rate1250, <<"1", "0", "6", ".", "2", "5">>)}

\* The lists of at most MaxViewEntries entries, each entry at most once.
ViewLists ==
  UNION {{list \in [1..n -> ViewEntries] : \A i \in 1..n : \A j \in 1..n : list[i] = list[j] => i = j} :
           n \in 0..MaxViewEntries}

InitView ==
  /\ timeEntries = <<>>
  /\ timeEntryIdCounter = 1
  /\ monthlyReports = <<>>
  /\ monthlyReportIdCounter = 1
  /\ res = NoResponse
  /\ clientDuration = Undefined
  /\ InitProjects
  /\ listing = Undefined
  /\ timezoneOffset = 0
  /\ InitUsers
  /\ InitBoot
  /\ InitUi
  /\ clientEntries \in ViewLists
  /\ summary = Undefined
  /\ groups = Undefined
  /\ exported = Undefined

NextView == RenderMonthlySummary \/ CallGroupEntriesByDate \/ GeneratePdfExport \/ GenerateExcelExport

SpecView == InitView /\ [][NextView]_vars

(***************************************************************************)
(* SpecIds: records of the three collections are created and deleted       *)
(* (MemStorage has no delete of a monthly report).                         *)
(***************************************************************************)
MaxIds == 2

IdsPostEntry ==
  \E body \in RoutePostBodies : timeEntryIdCounter <= MaxIds /\ PostTimeEntry(body)

IdsDeleteEntry == \E id \in 1..MaxIds : DeleteTimeEntry(id)

IdsPostProject ==
  \E body \in RouteProjectBodies : projectIdCounter <= 4 + MaxIds /\ PostProject(body)

IdsDeleteProject == \E id \in 4..(4 + MaxIds) : DeleteProject(id)

IdsPostReport ==
  \E body \in RouteReportBodies : monthlyReportIdCounter <= MaxIds /\ PostMonthlyReport(body)

NextIds == IdsPostEntry \/ IdsDeleteEntry \/ IdsPostProject \/ IdsDeleteProject \/ IdsPostReport

SpecIds == InitRoutes /\ [][NextIds]_vars

(***************************************************************************)
(* SpecRace: an entry is created and PATCH requests that change one of     *)
(* its times each are in flight together; their handlers take turns at     *)
(* the awaits.                                                             *)
(***************************************************************************)
MaxPatchRequests == 2

RacePatchBodies ==
  {[startTime |-> HHMM(10, 0)], [startTime |-> HHMM(8, 30)],
   [endTime |-> HHMM(18, 0)], [endTime |-> HHMM(12, 0)]}

RacePost == \E body \in RoutePostBodies : timeEntryIdCounter = 1 /\ PostTimeEntry(body)

RaceReceive ==
  \E body \in RacePatchBodies :
    /\ timeEntryIdCounter > 1
    /\ Len(requests) < MaxPatchRequests
    /\ PatchReceive(1, body)

RaceRecalc == \E r \in DOMAIN requests : PatchRecalc(r)

RaceStore == \E r \in DOMAIN requests : PatchStore(r)

RaceRespond == \E r \in DOMAIN requests : PatchRespond(r)

NextRace == RacePost \/ RaceReceive \/ RaceRecalc \/ RaceStore \/ RaceRespond

SpecRace == InitRoutes /\ [][NextRace]_vars

(***************************************************************************)
(* SpecBoot: the server process starts under each environment, with the    *)
(* primary and the alternative port free or in use; a listen on a free     *)
(* port succeeds or fails with another error.                              *)
(***************************************************************************)
MaxListenAttempts == 4

BootEnvs ==
  {Json([DATABASE_URL |-> url, PORT |-> p]) :
     url \in {Undefined, Str(<<>>), Str(<<"p", "g">>)},
     p \in {Undefined, Str(<<>>), Str(<<"3", "0", "0", "0">>), Str(<<"5", "0", "0", "0">>),
            Str(<<"5", "0", "0", "1">>)}}

ListenErrors == {"EADDRINUSE", "EACCES", "EADDRNOTAVAIL"}

InitBootEnv ==
  /\ timeEntries = <<>>
  /\ timeEntryIdCounter = 1
  /\ monthlyReports = <<>>
  /\ monthlyReportIdCounter = 1
  /\ res = NoResponse
  /\ clientDuration = Undefined
  /\ InitProjects
  /\ listing = Undefined
  /\ timezoneOffset = 0
  /\ InitViews
  /\ InitUsers
  /\ InitUi
  /\ env \in BootEnvs
  /\ storage = Undefined
  /\ server = Undefined
  /\ portsInUse \in SUBSET {ToNumber(port), altPort}

BootListenFails ==
  \E code \in ListenErrors :
    /\ server # Undefined
    /\ Len(server.attempts) < MaxListenAttempts \/ code # "EADDRINUSE"
    /\ ListenFails(code)

NextBoot == LoadStorage \/ StartServer \/ ListenSucceeds \/ BootListenFails

SpecBoot == InitBootEnv /\ [][NextBoot]_vars

(***************************************************************************)
(* SpecPages: the user moves between the Dashboard and the Time Entries    *)
(* page, turns pages, deletes entries and clicks edit buttons.             *)
(* SpecPagesLive: a click handler that has started runs on.                *)
(***************************************************************************)
MaxPageEntries == 21

MaxCallStack == 3

InitPages ==
  /\ timeEntries = <<>>
  /\ timeEntryIdCounter = 1
  /\ monthlyReports = <<>>
  /\ monthlyReportIdCounter = 1
  /\ res = NoResponse
  /\ clientDuration = Undefined
  /\ InitProjects
  /\ listing = Undefined
  /\ timezoneOffset = 0
  /\ InitViews
  /\ InitUsers
  /\ InitBoot
  /\ page = "/"
  /\ currentPage = 1
  /\ entryCount \in 0..MaxPageEntries
  /\ isEditModalOpen = FALSE
  /\ currentEntryId = Null
  /\ clicked = 0
  /\ callStack = 0

PagesNavigate == \E to \in {"/", "/time-entries"} : Navigate(to)

PagesEditRecent == \E id \in 1..5 : ClickEditRecent(id)

PagesEdit == \E id \in 1..MaxPageEntries : HandleEditEntry(id)

PagesClickPage == \E i \in 1..MaxPageEntries : ClickPage(i)

PagesRunHandler == OnEditEntry(MaxCallStack) \/ StackOverflow(MaxCallStack)

NextPages ==
  \/ PagesNavigate
  \/ PagesEditRecent
  \/ PagesEdit
  \/ PagesClickPage
  \/ ClickPrevious
  \/ ClickNext
  \/ HandleDeleteEntry
  \/ PagesRunHandler

SpecPages == InitPages /\ [][NextPages]_vars

SpecPagesLive == SpecPages /\ WF_vars(PagesRunHandler)

(***************************************************************************)
(* SpecUser: the user routes.  The user is read and edited, its password   *)
(* included.                                                               *)
(***************************************************************************)
UserPatchBodies ==
  {[password |-> Str(<<"s", "e", "c", "r", "e", "t">>)],
   [password |-> Str(<<"h", "u", "n", "t", "e", "r", "2">>), name |-> Str(<<"A", "l", "e", "x", " ", "D">>)],
   [name |-> Str(<<"A", "l", "e", "x">>)],
   [email |-> Str(<<"a", "@", "b", ".", "c", "z">>), hourlyRate |-> Str(<<"3", "0">>)],
   [initials |-> Null],
   [username |-> Str(<<"a", "l", "e", "x">>), monthlyGoalHours |-> Str(<<"1", "2", "0">>)],
   <<>>}

InitUser ==
  /\ timeEntries = <<>>
  /\ timeEntryIdCounter = 1
  /\ monthlyReports = <<>>
  /\ monthlyReportIdCounter = 1
  /\ res = NoResponse
  /\ clientDuration = Undefined
  /\ InitIdle

UserPatch == \E body \in UserPatchBodies : PatchUser(body)

NextUser == GetUser \/ UserPatch

SpecUser == InitUser /\ [][NextUser]_vars

(***************************************************************************)
(* Properties of the duration and earnings computation                     *)
(***************************************************************************)
\* The stored entries whose two times are well-formed.
ValidEntries ==
  {id \in DOMAIN timeEntries :
     ValidTime(timeEntries[id]["startTime"]) /\ ValidTime(timeEntries[id]["endTime"])}

\* endMinutes - startMinutes of a stored entry.
DeltaMinutes(id) == MinutesOf(timeEntries[id]["endTime"]) - MinutesOf(timeEntries[id]["startTime"])

\* The number a/b as it reads when written with two decimals, half away
\* from zero, for a >= 0.
Round2(a, b) == [n |-> (200 * a + b) \div (2 * b), d |-> 100]

\* C2: every stored entry with a well-formed endTime earlier than its
\* startTime has duration (endMinutes - startMinutes + 1440)/60 hours.
C2_OvernightDuration ==
  \A id \in ValidEntries :
    DeltaMinutes(id) < 0 =>
      NumEq(parseFloat(timeEntries[id]["duration"]), Round2(DeltaMinutes(id) + 1440, 60))

\* C3: every stored entry with a well-formed endTime later than its
\* startTime has duration (endMinutes - startMinutes)/60 hours: the two
\* routes compute exactly that number and store it with two decimals.
C3_SameDayDuration ==
  \A id \in ValidEntries :
    DeltaMinutes(id) > 0 =>
      /\ NumEq(postDuration(timeEntries[id]["startTime"], timeEntries[id]["endTime"]),
               [n |-> DeltaMinutes(id), d |-> 60])
      /\ NumEq(patchDuration(timeEntries[id]["startTime"], timeEntries[id]["endTime"]),
               [n |-> DeltaMinutes(id), d |-> 60])
      /\ NumEq(parseFloat(timeEntries[id]["duration"]), Round2(DeltaMinutes(id), 60))

\* An edit has stored 09:45 to 11:15 (end minute below start minute) as 1.50.
C3_Witness ==
  /\ res.route = "PATCH /api/time-entries/:id" /\ res.status = 200
  /\ \E id \in DOMAIN timeEntries :
       /\ timeEntries[id]["startTime"] = HHMM(9, 45)
       /\ timeEntries[id]["endTime"] = HHMM(11, 15)
       /\ timeEntries[id]["duration"] = Str(<<"1", ".", "5", "0">>)

\* C4: an entry whose startTime equals its endTime is stored with duration
\* 0, and calculateDuration(t, t) returns 0.
C4_EqualTimesZero ==
  /\ \A id \in ValidEntries :
       DeltaMinutes(id) = 0 => NumEq(parseFloat(timeEntries[id]["duration"]), Num(0))
  /\ (clientDuration.hours # Undefined /\ clientDuration.startTime = clientDuration.endTime)
       => NumEq(clientDuration.hours, Num(0))

\* An entry with equal times is stored with 0.00 and calculateDuration has
\* returned 0 for equal times.
C4_Witness ==
  /\ \E id \in ValidEntries :
       DeltaMinutes(id) = 0 /\ timeEntries[id]["duration"] = Str(<<"0", ".", "0", "0">>)
  /\ clientDuration.startTime = clientDuration.endTime
  /\ NumEq(clientDuration.hours, Num(0))

CreationDuration(id) == toFixed2(postDuration(timeEntries[id]["startTime"], timeEntries[id]["endTime"]))

CreationEarnings(id) ==
  toFixed2(postEarnings(postDuration(timeEntries[id]["startTime"], timeEntries[id]["endTime"]),
                        parseFloat(timeEntries[id]["hourlyRate"])))

\* C9: a PATCH that re-submits an entry's own startTime, endTime and
\* hourlyRate stores the duration and earnings that creation computes from
\* them, and leaves an entry that holds those values unchanged (so repeating
\* it changes nothing).
C9_ResubmitSameAsCreation ==
  [][\A id \in DOMAIN timeEntries :
       (PatchTimeEntry(id, ResubmitBody(id))
          /\ timeEntries[id]["duration"] = CreationDuration(id)
          /\ timeEntries[id]["earnings"] = CreationEarnings(id))
       => timeEntries' = timeEntries]_vars

\* An entry of 8.5 hours at rate 20 has been re-submitted and still holds
\* the values of its creation.
C9_Witness ==
  /\ res.route = "PATCH /api/time-entries/:id" /\ res.status = 200
  /\ res.keys = {"startTime", "endTime", "hourlyRate"}
  /\ res.id \in DOMAIN timeEntries
  /\ timeEntries[res.id]["duration"] = CreationDuration(res.id)
  /\ timeEntries[res.id]["earnings"] = CreationEarnings(res.id)
  /\ timeEntries[res.id]["startTime"] = HHMM(9, 0)
  /\ timeEntries[res.id]["endTime"] = HHMM(17, 30)
  /\ timeEntries[res.id]["hourlyRate"] = Rate20

(***************************************************************************)
(* Properties of the stored entries under arbitrary requests               *)
(***************************************************************************)
\* computeDuration of the specification, in minutes: the difference of the
\* two times, plus a day when the end is earlier than the start.
SpecDurationMinutes(id) == IF DeltaMinutes(id) < 0 THEN DeltaMinutes(id) + 1440 ELSE DeltaMinutes(id)

\* C1: every stored entry (with well-formed times and a non-negative
\* numeric rate) has duration = computeDuration(startTime, endTime) and
\* earnings = duration * hourlyRate, at two decimals; the earnings may be
\* taken from the exact or from the stored duration.
C1_DerivedFieldsConsistent ==
  \A id \in ValidEntries :
    LET r == parseFloat(timeEntries[id]["hourlyRate"])
        d == parseFloat(timeEntries[id]["duration"])
        e == parseFloat(timeEntries[id]["earnings"])
    IN  (IsNum(r) /\ r.n >= 0) =>
          /\ NumEq(d, Round2(SpecDurationMinutes(id), 60))
          /\ \/ NumEq(e, Round2(SpecDurationMinutes(id) * r.n, 60 * r.d))
             \/ NumEq(e, Round2(d.n * r.n, d.d * r.d))

\* C7: every stored entry has a well-formed startTime and endTime, and a
\* request that was answered with success left none that is malformed.
C7_NoMalformedTimeStored ==
  \A id \in DOMAIN timeEntries :
    ValidTime(timeEntries[id]["startTime"]) /\ ValidTime(timeEntries[id]["endTime"])

\* A valid value of a field that triggers recomputation: a well-formed time,
\* or a non-negative rate given as a number or as a numeric string.
ValidChange(k, v) ==
  IF k = "hourlyRate" THEN IsNum(parseFloat(v)) /\ parseFloat(v).n >= 0 ELSE ValidTime(v)

\* C8: after a successful PATCH whose body carries valid values for any of
\* startTime, endTime, hourlyRate (and nothing else), the stored duration and
\* earnings are the ones the server computes from the resulting startTime,
\* endTime and hourlyRate.
C8_PatchRecomputes ==
  (/\ res.route = "PATCH /api/time-entries/:id"
   /\ res.status = 200
   /\ res.keys # {}
   /\ res.keys \subseteq {"startTime", "endTime", "hourlyRate"}
   /\ \A k \in res.keys : ValidChange(k, timeEntries[res.id][k]))
  => /\ timeEntries[res.id]["duration"] = CreationDuration(res.id)
     /\ timeEntries[res.id]["earnings"] = CreationEarnings(res.id)

(***************************************************************************)
(* Properties of the stored monthly reports                                *)
(***************************************************************************)
\* Year and month of a date string YYYY-MM-DD.
YearOf(date) == DecVal(SubSeq(date.str, 1, 4))

MonthOf(date) == DecVal(SubSeq(date.str, 6, 7))

\* The stored entries of a user dated in a month.
EntriesOfMonth(userId, year, month) ==
  {id \in DOMAIN timeEntries :
     /\ timeEntries[id]["userId"] = userId
     /\ YearOf(timeEntries[id]["date"]) = year.n
     /\ MonthOf(timeEntries[id]["date"]) = month.n}

RECURSIVE SumField(_, _)
\* Sum of the numeric field k over the entries ids.
SumField(ids, k) ==
  IF ids = {} THEN Num(0)
  ELSE LET id == CHOOSE i \in ids : TRUE
       IN  Add(parseFloat(timeEntries[id][k]), SumField(ids \ {id}, k))

\* C10: every stored report holds the sum of the durations, the sum of the
\* earnings, the number of distinct dates and the hours per day (0 without
\* days) of its user's stored entries of its month.
C10_ReportMatchesEntries ==
  \A rid \in DOMAIN monthlyReports :
    LET report == monthlyReports[rid]
        ids    == EntriesOfMonth(report["userId"], report["year"], report["month"])
        hours  == SumField(ids, "duration")
        days   == Cardinality({timeEntries[id]["date"] : id \in ids})
    IN  /\ NumEq(parseFloat(report["hoursWorked"]), hours)
        /\ NumEq(parseFloat(report["totalEarnings"]), SumField(ids, "earnings"))
        /\ report["daysWorked"] = Num(days)
        /\ NumEq(parseFloat(report["dailyAverage"]),
                 IF days = 0 THEN Num(0) ELSE Round2(hours.n, hours.d * days))

(***************************************************************************)
(* Properties of the monthly-report routes                                 *)
(***************************************************************************)
\* C11: no two stored monthly reports have the same userId, year and month.
C11_OneReportPerMonth ==
  \A r1 \in DOMAIN monthlyReports : \A r2 \in DOMAIN monthlyReports :
    (/\ monthlyReports[r1]["userId"] = monthlyReports[r2]["userId"]
     /\ monthlyReports[r1]["year"] = monthlyReports[r2]["year"]
     /\ monthlyReports[r1]["month"] = monthlyReports[r2]["month"]) => r1 = r2

\* C12: a PATCH of a stored report whose body holds aggregate fields only
\* (no isCompleted) leaves the isCompleted value of that report as it was.
C12_RecomputeKeepsCompleted ==
  [][(/\ res'.route = "PATCH /api/monthly-reports/:id"
      /\ res'.status = 200
      /\ res'.keys # {}
      /\ res'.keys \subseteq AggregateKeys)
     => /\ res'.id \in DOMAIN monthlyReports
        /\ monthlyReports'[res'.id]["isCompleted"] = monthlyReports[res'.id]["isCompleted"]]_vars

\* A completed report of no hours was recomputed to the aggregates of one
\* day and is still completed.
C12_Witness ==
  /\ res.route = "PATCH /api/monthly-reports/:id"
  /\ res.status = 200
  /\ res.keys = AggregateKeys
  /\ monthlyReports[res.id]["isCompleted"] = Bool(TRUE)
  /\ monthlyReports[res.id]["daysWorked"] = Num(1)

(***************************************************************************)
(* Properties of the listing by month                                      *)
(***************************************************************************)
\* Day of the month of a date string YYYY-MM-DD.
DayOf(date) == DecVal(SubSeq(date.str, 9, 10))

\* C17: the response of GET /api/time-entries/:year/:month lists exactly the
\* stored entries of user 1 dated from the first to the last day of that
\* month, each once.
C17_MonthListingExact ==
  res.route = "GET /api/time-entries/:year/:month"
  => /\ {listing[i] : i \in 1..Len(listing)} =
          {id \in DOMAIN timeEntries :
             /\ timeEntries[id]["userId"] = Num(1)
             /\ YearOf(timeEntries[id]["date"]) = res.id[1]
             /\ MonthOf(timeEntries[id]["date"]) = res.id[2]
             /\ DayOf(timeEntries[id]["date"]) \in 1..DaysInMonth(res.id[1], res.id[2])}
     /\ \A i \in 1..Len(listing) : \A j \in 1..Len(listing) : listing[i] = listing[j] => i = j

(***************************************************************************)
(* Properties of the routes by id                                          *)
(***************************************************************************)
\* C13: a step that is not a monthly-report write leaves every stored report
\* as it is, and the isCompleted value of a stored report changes only in a
\* PATCH of that report whose body carries isCompleted.
C13_CompletedOnlyExplicit ==
  [][/\ res'.route \notin {"POST /api/monthly-reports", "PATCH /api/monthly-reports/:id"}
        => monthlyReports' = monthlyReports
     /\ \A id \in DOMAIN monthlyReports :
          (\/ id \notin DOMAIN monthlyReports'
           \/ monthlyReports'[id]["isCompleted"] # monthlyReports[id]["isCompleted"])
          => /\ res'.route = "PATCH /api/monthly-reports/:id"
             /\ res'.id = id
             /\ "isCompleted" \in res'.keys]_vars

\* An entry of March 2024 was edited while the report of that month is
\* stored as completed.
C13_Witness ==
  /\ res.route = "PATCH /api/time-entries/:id"
  /\ res.status = 200
  /\ MonthOf(timeEntries[res.id]["date"]) = 3
  /\ timeEntries[res.id]["endTime"] = HHMM(13, 0)
  /\ \E id \in DOMAIN monthlyReports :
       /\ monthlyReports[id]["month"] = Num(3)
       /\ monthlyReports[id]["isCompleted"] = Bool(TRUE)

\* C18: a GET, PATCH or DELETE of a time entry or project, or a PATCH of a
\* monthly report, by an id that is not stored, and a GET of a monthly report
\* by a year and month that no stored report of the user has, answer 404
\* and change no stored collection.
C18_MissingIdNotFound ==
  [][(\/ /\ res'.route \in {"GET /api/time-entries/:id", "PATCH /api/time-entries/:id",
                             "DELETE /api/time-entries/:id"}
         /\ res'.id \notin DOMAIN timeEntries
      \/ /\ res'.route \in {"GET /api/projects/:id", "PATCH /api/projects/:id",
                             "DELETE /api/projects/:id"}
         /\ res'.id \notin DOMAIN projects
      \/ /\ res'.route = "PATCH /api/monthly-reports/:id"
         /\ res'.id \notin DOMAIN monthlyReports
      \/ /\ res'.route = "GET /api/monthly-reports/:year/:month"
         /\ \A id \in DOMAIN monthlyReports :
              \/ monthlyReports[id]["userId"] # Num(1)
              \/ monthlyReports[id]["year"] # Num(res'.id[1])
              \/ monthlyReports[id]["month"] # Num(res'.id[2]))
     => /\ res'.status = 404
        /\ UNCHANGED <<storageVars, projectVars>>]_vars

\* A DELETE of an entry id that was given out and deleted before answered 404.
C18_Witness ==
  /\ res.route = "DELETE /api/time-entries/:id"
  /\ res.status = 404
  /\ res.id < timeEntryIdCounter
  /\ res.id \notin DOMAIN timeEntries

\* C19: a DELETE answered 204 removes the entry of its id and nothing else
\* (the other entries, the projects and the reports are as before); an id
\* once removed is never stored again; and every later GET by id answers 200
\* only for, and every listing holds only, entries that are stored.
C19_DeleteRemovesExactly ==
  [][/\ (res'.route = "DELETE /api/time-entries/:id" /\ res'.status = 204)
        => /\ res'.id \in DOMAIN timeEntries
           /\ DOMAIN timeEntries' = DOMAIN timeEntries \ {res'.id}
           /\ \A id \in DOMAIN timeEntries' : timeEntries'[id] = timeEntries[id]
           /\ UNCHANGED <<projects, monthlyReports>>
     /\ \A id \in 1..(timeEntryIdCounter - 1) :
          id \notin DOMAIN timeEntries => id \notin DOMAIN timeEntries'
     /\ (res'.route = "GET /api/time-entries/:id" /\ res'.status = 200)
        => res'.id \in DOMAIN timeEntries'
     /\ res'.route = "GET /api/time-entries"
        => \A i \in 1..Len(listing') : listing'[i] \in DOMAIN timeEntries']_vars

\* The entry of one id was deleted while another entry, the projects and a
\* report are stored.
C19_Witness ==
  /\ res.route = "DELETE /api/time-entries/:id"
  /\ res.status = 204
  /\ res.id \notin DOMAIN timeEntries
  /\ DOMAIN timeEntries # {}
  /\ DOMAIN projects # {}
  /\ DOMAIN monthlyReports # {}

(***************************************************************************)
(* Properties of the client components                                     *)
(***************************************************************************)
\* The lists that hold the elements of list in another order.
Shuffles(list) == {[i \in 1..Len(list) |-> list[f[i]]] : f \in Permutations(1..Len(list))}

\* C14: the totals MonthlySummary computed are the totals it computes for
\* every other order of the same entries.
C14_TotalsOrderIndependent ==
  summary # Undefined => \A other \in Shuffles(clientEntries) : MonthlySummary(other) = summary

C16_OneGroupPerDate ==
  groups # Undefined
  => /\ DOMAIN groups.byDate = {clientEntries[i]["date"] : i \in 1..Len(clientEntries)}
     /\ \A date \in DOMAIN groups.byDate :
          LET OfDate(entry) == entry["date"] = date
          IN  groups.byDate[date] = SelectSeq(clientEntries, OfDate)

\* Two entries of one date and an entry of another date were grouped into
\* two groups.
C16_Witness ==
  /\ groups # Undefined
  /\ Len(clientEntries) = 3
  /\ Cardinality(DOMAIN groups.byDate) = 2
  /\ \E date \in DOMAIN groups.byDate : Len(groups.byDate[date]) = 2

\* A decimal numeral with exactly two digits after the point.
TwoDecimals(s) ==
  LET body == IF Len(s) > 0 /\ s[1] = "-" THEN Tail(s) ELSE s
  IN  /\ Len(body) >= 4
      /\ body[Len(body) - 2] = "."
      /\ \A i \in 1..Len(body) : i # Len(body) - 2 => IsDigit(body[i])

\* The amount of a cell "<amount> CZK".
Amount(cell) == SubSeq(cell.str, 1, Len(cell.str) - 4)

\* C20: the hours, the hourly rate and the payment of every exported row
\* and the total payment are numerals with exactly two decimals.
C20_ExportTwoDecimals ==
  exported # Undefined
  => /\ \A i \in 1..Len(exported.rows) :
          /\ TwoDecimals(exported.rows[i].hoursWorked.str)
          /\ TwoDecimals(Amount(exported.rows[i].hourlyRate))
          /\ TwoDecimals(Amount(exported.rows[i].payment))
     /\ TwoDecimals(exported.totalPayment.str)

C26_IdentityImmutable ==
  \A k \in DOMAIN timeEntries :
    timeEntries[k]["id"] = Num(k) /\ timeEntries[k]["userId"] = Num(1)

\* The records a step adds to a collection: none, or one under the value
\* of the counter, with that id, and the counter goes up by one.
AssignsNext(before, after, counter, counterAfter) ==
  /\ counterAfter >= counter
  /\ \A k \in DOMAIN before : k < counter
  /\ \A k \in (DOMAIN after) \ (DOMAIN before) :
       k = counter /\ counterAfter = counter + 1 /\ after[k]["id"] = Num(k)
  /\ \A k \in (DOMAIN after) \cap (DOMAIN before) : after[k]["id"] = before[k]["id"]

\* C27: in each collection every id assigned is the value of the counter,
\* which is larger than every id assigned before and only goes up; so no
\* two stored records share an id and a deleted id is never assigned again.
C27_IdsNeverReused ==
  [][/\ AssignsNext(timeEntries, timeEntries', timeEntryIdCounter, timeEntryIdCounter')
     /\ AssignsNext(projects, projects', projectIdCounter, projectIdCounter')
     /\ AssignsNext(monthlyReports, monthlyReports', monthlyReportIdCounter, monthlyReportIdCounter')
     /\ \A j \in DOMAIN projects' : \A k \in DOMAIN projects' :
          projects'[j]["id"] = projects'[k]["id"] => j = k]_vars

\* An entry and a project were deleted and the next ones were created after
\* that, and two reports were created.
C27_Witness ==
  /\ 1 \notin DOMAIN timeEntries /\ 2 \in DOMAIN timeEntries
  /\ 5 \notin DOMAIN projects /\ 6 \in DOMAIN projects
  /\ DOMAIN monthlyReports = {1, 2}

(***************************************************************************)
(* Properties of requests in flight together                               *)
(***************************************************************************)
\* The duration and the earnings of the stored entry id are those of its
\* stored times and rate, at two decimals.
DerivedOfStored(id) ==
  LET r == parseFloat(timeEntries[id]["hourlyRate"])
      d == parseFloat(timeEntries[id]["duration"])
      e == parseFloat(timeEntries[id]["earnings"])
  IN  /\ NumEq(d, Round2(SpecDurationMinutes(id), 60))
      /\ \/ NumEq(e, Round2(SpecDurationMinutes(id) * r.n, 60 * r.d))
         \/ NumEq(e, Round2(d.n * r.n, d.d * r.d))

\* C25: once every PATCH request in flight has been answered, the duration
\* and the earnings of every stored entry are those of its stored
\* startTime, endTime and hourlyRate.
C25_InterleavedPatchConsistent ==
  (\A r \in DOMAIN requests : requests[r].pc = "done")
  => \A id \in DOMAIN timeEntries : DerivedOfStored(id)

(***************************************************************************)
(* Properties of the export and of the recent entries                      *)
(***************************************************************************)
\* C29: the hours and the payment of every exported row are the stored
\* duration and the stored earnings of its entry.
C29_ExportEqualsStored ==
  exported # Undefined
  => \A i \in 1..Len(exported.rows) :
       /\ NumEq(parseFloat(exported.rows[i].hoursWorked), parseFloat(clientEntries[i]["duration"]))
       /\ NumEq(parseFloat(Str(Amount(exported.rows[i].payment))),
                parseFloat(clientEntries[i]["earnings"]))

\* C30: the recent entries are the same ids in the same order whether the
\* list comes from MemStorage.getTimeEntries or DbStorage.getTimeEntries.
C30_RecentSameUnderBothStorages ==
  \A rows \in DbStorageGetTimeEntries(Num(1)) :
    RecentTimeEntries(rows) = RecentTimeEntries(getTimeEntries(Num(1)))

(***************************************************************************)
(* Properties of the start of the server                                   *)
(***************************************************************************)
\* C22: once the storage module was loaded, the storage is MemStorage when
\* DATABASE_URL is not set and DbStorage when it is set.
C22_StorageByEnvironment ==
  storage # Undefined
  => storage = IF Truthy(Get(env, "DATABASE_URL")) THEN [class |-> "DbStorage"]
               ELSE [class |-> "MemStorage"]

\* C23: the server is never asked to listen more than twice, and a second
\* listen is on port 5001.
C23_AtMostTwoListens ==
  server # Undefined
  => /\ Len(server.attempts) <= 2
     /\ Len(server.attempts) = 2 => server.attempts[2] = Num(5001)

(***************************************************************************)
(* Properties of the client pages                                          *)
(***************************************************************************)
\* C21: after a click on the edit button of entry id the application gets
\* to isEditModalOpen = true with currentEntryId = id.
C21_EditClickOpensModal ==
  \A id \in 1..MaxPageEntries :
    (clicked = id) ~> (isEditModalOpen /\ currentEntryId = Num(id))

\* C28: on the Time Entries page currentPage is within 1..max(1, totalPages)
\* and the page shown is empty only when there is no entry.
C28_CurrentPageInRange ==
  page = "/time-entries"
  => /\ 1 <= currentPage
     /\ currentPage <= (IF totalPages > 1 THEN totalPages ELSE 1)
     /\ paginatedEntries = {} => entryCount = 0

====
